---- MODULE Spec2Model ----
(***************************************************************************)
(* A model of the search_and_ranking_demo pipeline of msaharan/            *)
(* dsaiengineering: spell correction, lexical/hybrid retrieval, feature    *)
(* building, the ranker wrapper and the train_pipeline driver.             *)
(*                                                                         *)
(* Strings are sequences of one-character strings.  Scores are integers    *)
(* in units of the normalisation epsilon (1e-6), and quotients are kept as *)
(* numerator/denominator pairs, so comparisons are exact.                  *)
(***************************************************************************)
EXTENDS Integers, Sequences, FiniteSets, TLC

VARIABLES
    \* ---- search/spell.py: SpellCorrector ----
    vocab,              \* self.vocab, as the sequence in which the set iterates
    max_edit_distance,  \* self.max_edit_distance
    spell_init,         \* outcome of SpellCorrector.__init__: "ok" or an error
    query,              \* argument of the last correct() call
    corrected,          \* value returned by the last correct() call
    spell_call,         \* "none" before any call, then the call's outcome
    \* ---- search/retrieval.py: LexicalRetriever, HybridRetriever ----
    catalog,            \* the catalog rows, in catalog order
    lex_scores,         \* linear_kernel(q_vec, doc_matrix) for the query text, per row
    semantic,           \* HybridRetriever.semantic: "None" or the retriever's class
    sem_scores,         \* the semantic retriever's similarity for the text, per row
    semantic_weight,    \* HybridRetriever.semantic_weight, as <<numerator, denominator>>
    \* ---- search/personalization.py: UserProfiles ----
    query_text,         \* the query text the similarities are those of
    query_signals,      \* what query understanding derives from the query text
    labeled_pairs,      \* the interactions UserProfiles was built from
    profiles,           \* self.profiles: user -> cuisine -> <<numerator, denominator>>
    op,                 \* the retrieval call made: "none" or the method's name
    arg,                \* its argument besides the text (top_k, item_id or the rows)
    outcome,            \* "none" or the exception the call raised
    result,             \* the value the call returned
    \* ---- search/ranking.py: Ranker ----
    has_xgboost,        \* whether `from xgboost import XGBRanker` succeeds
    uses_xgb,           \* self.uses_xgb
    model_features,     \* columns self.model was fitted on, 0 while it is not fitted
    last_fit_cols,      \* columns of X in the last fit() that returned, 0 if none did
    \* ---- run_demo.py: train_pipeline ----
    pc,                 \* the statement train_pipeline has reached
    enable_semantic,    \* its argument enable_semantic
    use_dual,           \* its argument use_dual
    has_sentence_transformers,  \* whether sentence_transformers can be imported
    \* ---- search/query_understanding.py: IntentClassifier ----
    is_fitted,          \* self.is_fitted
    clf_classes,        \* labels the classifier of self.pipeline has learned, {} before
    tfidf_refit,        \* the vectorizer was fitted again after the classifier was
    fit_returned,       \* a call of fit() has returned
    \* ---- task CLI (L6/src/task): storage.py and the commands ----
    storage_exists,     \* whether ~/.task/tasks.json exists
    storage_tasks,      \* the "tasks" array of tasks.json, a list of dicts
    cmd,                \* the command line last run: its name and arguments
    exit_code,          \* the exit code of that command
    shown,              \* the rows display.table printed, as <<'#', task>>
    previous,           \* the "tasks" array before that command ran
    proc_pc,            \* per concurrent process: where its command stands
    proc_cmd,           \* per concurrent process: its command line
    proc_tasks          \* per concurrent process: its local list `tasks`

spellVars == <<vocab, max_edit_distance, spell_init, query, corrected, spell_call>>

indexVars ==
    <<catalog, lex_scores, semantic, sem_scores, semantic_weight, query_text,
      query_signals,
      labeled_pairs, profiles>>

callVars == <<op, arg, outcome, result>>

rankVars == <<has_xgboost, uses_xgb, model_features, last_fit_cols>>

pipeVars == <<pc, enable_semantic, use_dual, has_sentence_transformers>>

intentVars == <<is_fitted, clf_classes, tfidf_refit, fit_returned>>

taskVars ==
    <<storage_exists, storage_tasks, cmd, exit_code, shown, previous,
      proc_pc, proc_cmd, proc_tasks>>

vars == <<spellVars, indexVars, callVars, rankVars, pipeVars, intentVars, taskVars>>

(***************************************************************************)
(* Bounds                                                                  *)
(***************************************************************************)
MaxEntryLen == 1        \* characters in one vocabulary entry
MaxVocabEntries == 2    \* entries handed to SpellCorrector.__init__
MaxQueryLen == 3        \* characters in a query handed to correct()
MaxEditBound == 2       \* largest max_edit_distance tried
MaxCatalog == 3         \* rows in the catalog
MaxTopK == 2            \* largest top_k asked for
MaxInteractions == 1    \* labelled interactions UserProfiles is built from
MaxRows == 2            \* rows of labeled_data handed to build_feature_rows
MaxMatrixRows == 2      \* rows of a feature matrix handed to the Ranker
MaxTextLen == 3         \* characters in a text handed to normalize_query
MaxTrain == 2           \* training examples handed to IntentClassifier.fit
MaxQueries == 2         \* queries handed to IntentClassifier.predict
MaxProfileInteractions == 2   \* interactions UserProfiles is built from, any users
MaxProfileItems == 2    \* rows of the catalog those interactions are joined with
MaxFeatureRows == 3     \* FeatureRows handed to build_matrices
MaxRels == 3            \* relevances in a list handed to a metric
MaxRelevance == 2       \* largest relevance grade
MaxK == 3               \* largest cut-off k
MaxEvalRows == 3        \* rows and predictions handed to evaluate_predictions
MaxWords == 2           \* words in a catalog text or a query text

(***************************************************************************)
(* Generic helpers                                                         *)
(***************************************************************************)
SeqsUpTo(S, n) == UNION {[1..k -> S] : k \in 0..n}

Range(s) == {s[i] : i \in 1..Len(s)}

\* What a method hands back: the value it returns or the exception it raises.
Returned(v) == [exc |-> "none", val |-> v]

Raised(e) == [exc |-> e, val |-> <<>>]

\* All orders in which a finite set can be iterated.
Orders(S) == {s \in [1..Cardinality(S) -> S] : Range(s) = S}

\* The signals of a query text without a dietary tag, a price hint or a token
\* of the cuisine lexicon, which an untrained IntentClassifier labels.
PlainSignals ==
    [tokens |-> {"fast", "lunch"},
     intent |-> "product_search",
     diet_tags |-> {},
     price_hint |-> "None"]

\* The components a specification does not exercise stay as constructed.
SpellIdle ==
    /\ vocab = <<>>
    /\ max_edit_distance = 1
    /\ spell_init = "ok"
    /\ query = <<>>
    /\ corrected = <<>>
    /\ spell_call = "none"

IndexIdle ==
    /\ catalog = <<>>
    /\ lex_scores = <<>>
    /\ semantic = "None"
    /\ sem_scores = <<>>
    /\ semantic_weight = <<1, 2>>
    /\ query_text = <<>>
    /\ query_signals = PlainSignals
    /\ labeled_pairs = <<>>
    /\ profiles = <<>>

CallIdle ==
    /\ op = "none"
    /\ arg = <<>>
    /\ outcome = "none"
    /\ result = <<>>

RankerIdle ==
    /\ has_xgboost = FALSE
    /\ uses_xgb = FALSE
    /\ model_features = 0
    /\ last_fit_cols = 0

PipelineIdle ==
    /\ pc = "idle"
    /\ enable_semantic = FALSE
    /\ use_dual = FALSE
    /\ has_sentence_transformers = FALSE

IntentIdle ==
    /\ is_fitted = FALSE
    /\ clf_classes = {}
    /\ tfidf_refit = FALSE
    /\ fit_returned = FALSE

\* Optional values: None is the empty tuple, a value x is <<x>>.
PyNone == <<>>

Some(x) == <<x>>

\* The processes of the concurrent runs of the task CLI.
Procs == {1, 2}

\* No command line.
NoCmd ==
    [name |-> "none", title |-> <<>>, priority |-> "low", due |-> PyNone,
     task_id |-> 0, all_tasks |-> FALSE, done |-> FALSE, priority_filter |-> PyNone]

TaskIdle ==
    /\ storage_exists = FALSE
    /\ storage_tasks = <<>>
    /\ cmd = NoCmd
    /\ exit_code = 0
    /\ shown = <<>>
    /\ previous = <<>>
    /\ proc_pc = [p \in Procs |-> "idle"]
    /\ proc_cmd = [p \in Procs |-> NoCmd]
    /\ proc_tasks = [p \in Procs |-> <<>>]

(***************************************************************************)
(* search/spell.py                                                         *)
(***************************************************************************)
EntryChars == {"a", "B", " "}
QueryChars == {"a", "b", " "}

\* str.lower() on one character.
LowerChar(c) == IF c = "B" THEN "b" ELSE c

\* str.lower()
Lower(s) == [i \in 1..Len(s) |-> LowerChar(s[i])]

\* str.split(): split on runs of whitespace, dropping empty pieces.
RECURSIVE SplitFrom(_, _, _)
SplitFrom(s, cur, acc) ==
    IF s = <<>>
    THEN IF cur = <<>> THEN acc ELSE Append(acc, cur)
    ELSE IF Head(s) = " "
         THEN SplitFrom(Tail(s), <<>>, IF cur = <<>> THEN acc ELSE Append(acc, cur))
         ELSE SplitFrom(Tail(s), Append(cur, Head(s)), acc)

Split(s) == SplitFrom(s, <<>>, <<>>)

\* " ".join(tokens)
RECURSIVE Join(_)
Join(toks) ==
    IF toks = <<>> THEN <<>>
    ELSE IF Len(toks) = 1 THEN toks[1]
    ELSE toks[1] \o <<" ">> \o Join(Tail(toks))

\* What an operator yields in place of a string when the code raises ValueError.
ValueError == <<"ValueError">>

Min3(x, y, z) ==
    IF x <= y /\ x <= z THEN x ELSE IF y <= z THEN y ELSE z

\* The dynamic-programming table of _levenshtein, read at dp[-1][-1].
LevenshteinNoSubst(a, b) ==
    LET dp[i \in 0..Len(a), j \in 0..Len(b)] ==
            IF j = 0 THEN i
            ELSE IF i = 0 THEN j
            ELSE LET cost == IF a[i] = b[j] THEN 0 ELSE 2
                 IN  Min3(dp[i - 1, j] + 1, dp[i, j - 1] + 1, dp[i - 1, j - 1] + cost)
    IN  dp[Len(a), Len(b)]

Levenshtein(a, b) ==
    LET dp[i \in 0..Len(a), j \in 0..Len(b)] ==
            IF j = 0 THEN i
            ELSE IF i = 0 THEN j
            ELSE LET cost == IF a[i] = b[j] THEN 0 ELSE 1
                 IN  Min3(dp[i - 1, j] + 1, dp[i, j - 1] + 1, dp[i - 1, j - 1] + cost)
    IN  dp[Len(a), Len(b)]

\* min(self.vocab, key=...): the first element, in iteration order, whose key
\* no later element undercuts; min() of an empty set raises ValueError.
RECURSIVE MinByFrom(_, _, _, _)
MinByFrom(v, token, i, best) ==
    IF i > Len(v) THEN best
    ELSE IF Levenshtein(token, v[i]) < Levenshtein(token, best)
         THEN MinByFrom(v, token, i + 1, v[i])
         ELSE MinByFrom(v, token, i + 1, best)

MinBy(v, token) ==
    IF v = <<>> THEN ValueError ELSE MinByFrom(v, token, 2, v[1])

\* One iteration of the loop of SpellCorrector.correct.
CorrectTokenNoGuard(v, med, token) ==
    IF token \in Range(v) \/ v = <<>>
    THEN token
    ELSE MinBy(v, token)

CorrectTokenNoEmptyTest(v, med, token) ==
    IF token \in Range(v)
    THEN token
    ELSE LET best_token == MinBy(v, token)
         IN  IF best_token = ValueError THEN ValueError
             ELSE IF Levenshtein(token, best_token) <= med THEN best_token ELSE token

CorrectToken(v, med, token) ==
    IF token \in Range(v) \/ v = <<>>
    THEN token
    ELSE LET best_token == MinBy(v, token)
         IN  IF best_token = ValueError THEN ValueError
             ELSE LET best_distance == Levenshtein(token, best_token)
                  IN  IF best_distance <= med THEN best_token ELSE token

\* The list corrected_tokens of SpellCorrector.correct, before the final join.
CorrectTokens(v, med, q) ==
    LET toks == Split(q)
    IN  [i \in 1..Len(toks) |-> CorrectToken(v, med, toks[i])]

\* SpellCorrector.correct: the joined tokens, or the error an iteration raised.
Correct(v, med, q) ==
    LET out == CorrectTokens(v, med, q)
    IN  IF \E i \in 1..Len(out) : out[i] = ValueError
        THEN ValueError
        ELSE Join(out)

\* The token set SpellCorrector.__init__ builds from its vocab argument.
VocabTokens(entries) ==
    UNION {Range(Split(Lower(entries[i]))) : i \in 1..Len(entries)}

\* Outcome of SpellCorrector.__init__: it has no failure path.
SpellInitRejectEmpty(entries) == IF VocabTokens(entries) = {} THEN "ValueError" ELSE "ok"

SpellInitOutcome(entries) == "ok"

\* The vocab arguments tried, and the token sets they make.
VocabArgs == SeqsUpTo(SeqsUpTo(EntryChars, MaxEntryLen), MaxVocabEntries)

SpellInit ==
    \E built \in {<<SpellInitOutcome(entries), VocabTokens(entries)>> : entries \in VocabArgs} :
        /\ spell_init = built[1]
        /\ vocab \in (IF spell_init = "ok" THEN Orders(built[2]) ELSE {<<>>})
        /\ max_edit_distance \in 0..MaxEditBound
        /\ query = <<>>
        /\ corrected = <<>>
        /\ spell_call = "none"
        /\ IndexIdle
        /\ CallIdle
        /\ RankerIdle
        /\ PipelineIdle
        /\ IntentIdle
        /\ TaskIdle

\* A call of correct(query) on the constructed corrector.  correct() reads the
\* corrector and writes none of its fields, so the states after any number of
\* calls are the states after one: a behaviour makes one call.
CorrectCall ==
    /\ spell_init = "ok"
    /\ spell_call = "none"
    /\ \E q \in SeqsUpTo(QueryChars, MaxQueryLen) :
        /\ query' = q
        /\ LET r == Correct(vocab, max_edit_distance, q)
           IN  /\ corrected' = (IF r = ValueError THEN <<>> ELSE r)
               /\ spell_call' = (IF r = ValueError THEN ValueError ELSE "returned")
    /\ UNCHANGED <<vocab, max_edit_distance, spell_init, indexVars, callVars,
                   rankVars, pipeVars, intentVars, taskVars>>

SpellNext == CorrectCall

SpecSpell == SpellInit /\ [][SpellNext]_vars

(***************************************************************************)
(* search/retrieval.py                                                     *)
(*                                                                         *)
(* TfidfVectorizer and the embedding model are libraries: what the         *)
(* retrievers see of them is one similarity per catalog row for the query  *)
(* text.  A behaviour fixes the text, so lex_scores and sem_scores are     *)
(* those rows of similarities, any values the libraries can return.        *)
(***************************************************************************)
\* 1e-6, the epsilon of normalize(), is the unit in which scores are counted.
Eps == 1

Cuisines == <<"japanese", "italian", "thai", "indian">>

\* price_range of the catalog rows: two the buckets know and one they do not.
PriceRanges == <<"cheap", "expensive", "premium">>

\* extract_attributes for row idx, whose description names a dietary tag for
\* one row in three; a row in three comes from a frame that has no
\* ontology_attrs (one that load_catalog did not build).
OntologyAttrs(idx) ==
    LET cuisine == Cuisines[((idx - 1) % 4) + 1]
        attrs == [cuisine |-> cuisine,
                  category |-> cuisine,
                  price_level |-> PriceRanges[(idx % 3) + 1]]
    IN  IF idx % 3 = 1
        THEN attrs @@ [dietary |-> <<"vegan">>, is_vegan_friendly |-> TRUE]
        ELSE IF idx % 3 = 2
             THEN attrs
             ELSE [k \in {} |-> TRUE]

\* Row idx of the catalog.
CatalogRow(idx) ==
    [item_id |-> 10 * idx,
     cuisine |-> Cuisines[((idx - 1) % 4) + 1],
     rating |-> (idx % 5) + 1,
     popularity |-> idx,
     is_vegan_friendly |-> (idx % 2 = 1),
     delivery_time_minutes |-> 10 + 5 * idx,
     price_range |-> PriceRanges[(idx % 3) + 1],
     ontology_attrs |-> OntologyAttrs(idx)]

\* self.id_to_idx
id_to_idx == [id \in {catalog[i].item_id : i \in 1..Len(catalog)} |->
                CHOOSE i \in 1..Len(catalog) : catalog[i].item_id = id]

\* The orders of the row indices of a catalog of n rows.
IndexOrders == [n \in 0..MaxCatalog |-> Orders(1..n)]

\* ndarray.argsort(): an ascending order of the indices.  The default kind is
\* not stable, so equal scores may come out in either order.
Argsort(scores) ==
    {p \in IndexOrders[Len(scores)] :
        \A i, j \in 1..Len(scores) : i < j => scores[p[i]] <= scores[p[j]]}

MinOf(a, b) == IF a <= b THEN a ELSE b

\* p[::-1][:k]
ReversedHeadNoReverse(p, k) == [i \in 1..MinOf(k, Len(p)) |-> p[i]]

ReversedHead(p, k) == [i \in 1..MinOf(k, Len(p)) |-> p[Len(p) + 1 - i]]

\* The list of ScoredItem a retriever builds from the chosen indices.
ScoredItems(indices, scores, source) ==
    [i \in 1..Len(indices) |->
        [item_id |-> catalog[indices[i]].item_id,
         score |-> scores[indices[i]],
         source |-> source]]

\* scores.argsort()[::-1][:top_k], every outcome the sort can give.
TopIndices(scores, top_k) == {ReversedHead(p, top_k) : p \in Argsort(scores)}

\* LexicalRetriever.query, for the outcome top_indices of the sort.
LexicalQuery(top_indices) == ScoredItems(top_indices, lex_scores, "lexical")

\* SemanticRetriever.query without an index: Tensor.topk(k) raises when k
\* exceeds the number of rows.  DualEncoderRetriever.query without an index:
\* argsort()[::-1][:top_k].
SemanticQuery(top_indices, top_k) ==
    IF semantic = "SemanticRetriever"
    THEN IF top_k > Len(catalog)
         THEN Raised("RuntimeError")
         ELSE Returned(ScoredItems(top_indices, sem_scores, "semantic"))
    ELSE Returned(ScoredItems(top_indices, sem_scores, "dual_encoder"))

\* The keys of the dict `scores` of retrieve, in insertion order.
MergedIds(lexical_results, semantic_results) ==
    LET lex_ids == [i \in 1..Len(lexical_results) |-> lexical_results[i].item_id]
        sem_ids == [i \in 1..Len(semantic_results) |-> semantic_results[i].item_id]
        IsNew(id) == id \notin Range(lex_ids)
    IN  lex_ids \o SelectSeq(sem_ids, IsNew)

\* scores[item_id].get(signal, 0.0) for every key of `scores`.
SubScores(ids, results) ==
    [i \in 1..Len(ids) |->
        IF \E j \in 1..Len(results) : results[j].item_id = ids[i]
        THEN results[CHOOSE j \in 1..Len(results) : results[j].item_id = ids[i]].score
        ELSE 0]

MaxIn(values) == CHOOSE v \in Range(values) : \A w \in Range(values) : w <= v

MinIn(values) == CHOOSE v \in Range(values) : \A w \in Range(values) : v <= w

\* normalize(values) of retrieve: per key the numerator, and the common
\* denominator max - min + 1e-6.
NormalizeNoShift(values) ==
    IF values = <<>>
    THEN [num |-> <<>>, den |-> Eps]
    ELSE [num |-> values,
          den |-> MaxIn(values) - MinIn(values) + Eps]

Normalize(values) ==
    IF values = <<>>
    THEN [num |-> <<>>, den |-> Eps]
    ELSE LET lo == MinIn(values)
             hi == MaxIn(values)
         IN  [num |-> [i \in 1..Len(values) |-> values[i] - lo],
              den |-> hi - lo + Eps]

\* An insertion that puts an item before the items of equal score.
RECURSIVE InsertDescBeforeEqual(_, _)
InsertDescBeforeEqual(sorted, x) ==
    IF sorted = <<>> THEN <<x>>
    ELSE IF Head(sorted).score[1] > x.score[1]
         THEN <<Head(sorted)>> \o InsertDescBeforeEqual(Tail(sorted), x)
         ELSE <<x>> \o sorted

\* list.sort(key=score, reverse=True): stable, highest score first.
RECURSIVE InsertDesc(_, _)
InsertDesc(sorted, x) ==
    IF sorted = <<>> THEN <<x>>
    ELSE IF Head(sorted).score[1] >= x.score[1]
         THEN <<Head(sorted)>> \o InsertDesc(Tail(sorted), x)
         ELSE <<x>> \o sorted

RECURSIVE SortDesc(_)
SortDesc(items) ==
    IF items = <<>> THEN <<>>
    ELSE InsertDesc(SortDesc(SubSeq(items, 1, Len(items) - 1)), items[Len(items)])

\* `combined` with the semantic signal added unweighted.
CombinedUnweighted(lexical_results, semantic_results) ==
    LET ids == MergedIds(lexical_results, semantic_results)
        nl == Normalize(SubScores(ids, lexical_results))
        ns == Normalize(SubScores(ids, semantic_results))
    IN  [i \in 1..Len(ids) |->
            [item_id |-> ids[i],
             score |-> <<nl.num[i] * ns.den + ns.num[i] * nl.den, nl.den * ns.den>>,
             source |-> "hybrid"]]

\* The list `combined` of retrieve before it is sorted.  A score is
\* <<numerator, denominator>>; the denominator is the same for every item.
Combined(lexical_results, semantic_results) ==
    LET ids == MergedIds(lexical_results, semantic_results)
        nl == Normalize(SubScores(ids, lexical_results))
        ns == Normalize(SubScores(ids, semantic_results))
        wn == semantic_weight[1]
        wd == semantic_weight[2]
    IN  [i \in 1..Len(ids) |->
            [item_id |-> ids[i],
             score |-> <<nl.num[i] * ns.den * wd + wn * ns.num[i] * nl.den,
                         nl.den * ns.den * wd>>,
             source |-> "hybrid"]]

\* HybridRetriever.retrieve, for the outcomes lp and sp of the two
\* retrievers' sorts.
Retrieve(lp, sp, top_k) ==
    LET lexical_results == LexicalQuery(lp)
        semantic_results == IF semantic # "None"
                            THEN SemanticQuery(sp, top_k * 2)
                            ELSE Returned(<<>>)
    IN  IF semantic_results.exc # "none"
        THEN semantic_results
        ELSE LET combined == SortDesc(Combined(lexical_results, semantic_results.val))
             IN  Returned(SubSeq(combined, 1, MinOf(top_k, Len(combined))))

\* LexicalRetriever.score_pair: id_to_idx[item_id] raises for an unknown id.
LexicalScorePair(item_id) ==
    IF item_id \notin DOMAIN id_to_idx
    THEN Raised("KeyError")
    ELSE Returned(lex_scores[id_to_idx[item_id]])

\* SemanticRetriever.score_pair, DualEncoderRetriever.score_pair
SemanticScorePair(item_id) ==
    IF item_id \notin DOMAIN id_to_idx
    THEN Raised("KeyError")
    ELSE Returned(sem_scores[id_to_idx[item_id]])

\* HybridRetriever.pair_scores
PairScores(item_id) ==
    LET lexical_score == LexicalScorePair(item_id)
    IN  IF lexical_score.exc # "none"
        THEN lexical_score
        ELSE IF semantic # "None"
             THEN LET semantic_score == SemanticScorePair(item_id)
                  IN  IF semantic_score.exc # "none"
                      THEN semantic_score
                      ELSE Returned(<<lexical_score.val, semantic_score.val>>)
             ELSE Returned(<<lexical_score.val, 0>>)

SemanticKinds == {"None", "SemanticRetriever", "DualEncoderRetriever"}

\* Similarities the vectorizer can give: no shared term, some, more.
LexValues == {0, 1, 2}

\* Similarities an embedding model can give: cosine is negative too, and a row
\* the semantic retriever did not return counts as 0.0 between them.  Two rows
\* of floating-point embeddings do not have the same similarity.
SemValues == {-2, -1, 1, 2}

SemScoreRows(n) ==
    {f \in [1..n -> SemValues] : \A i, j \in 1..n : i # j => f[i] # f[j]}

\* semantic_weight: the default 0.5 and two other non-negative weights.
Weights == {<<1, 2>>, <<0, 1>>, <<2, 1>>}

\* LexicalRetriever.__init__, the optional semantic retriever's __init__ and
\* HybridRetriever.__init__ over a catalog of n rows.
IndexInit ==
    \E n \in 1..MaxCatalog :
        /\ catalog = [i \in 1..n |-> CatalogRow(i)]
        /\ lex_scores \in [1..n -> LexValues]
        /\ semantic \in SemanticKinds
        /\ sem_scores \in (IF semantic = "None" THEN {<<>>} ELSE SemScoreRows(n))
        /\ semantic_weight \in Weights

RetrievalInit ==
    /\ SpellIdle
    /\ IndexInit
    /\ query_text = <<>>
    /\ query_signals = PlainSignals
    /\ labeled_pairs = <<>>
    /\ profiles = <<>>
    /\ CallIdle
    /\ RankerIdle
    /\ PipelineIdle
    /\ IntentIdle
    /\ TaskIdle

\* One call on the retrievers.  They read the index and write none of it, so a
\* behaviour makes one call.
QueryCall ==
    /\ op = "none"
    /\ \E top_k \in 1..MaxTopK : \E top_indices \in TopIndices(lex_scores, top_k) :
        /\ op' = "query"
        /\ arg' = top_k
        /\ outcome' = "none"
        /\ result' = LexicalQuery(top_indices)
    /\ UNCHANGED <<spellVars, indexVars, rankVars, pipeVars, intentVars, taskVars>>

RetrieveCall ==
    /\ op = "none"
    /\ \E top_k \in 1..MaxTopK :
       \E tops \in TopIndices(lex_scores, top_k * 2)
                    \X (IF semantic = "None" THEN {<<>>}
                        ELSE TopIndices(sem_scores, top_k * 2)) :
        LET r == Retrieve(tops[1], tops[2], top_k)
        IN  /\ op' = "retrieve"
            /\ arg' = top_k
            /\ outcome' = r.exc
            /\ result' = r.val
    /\ UNCHANGED <<spellVars, indexVars, rankVars, pipeVars, intentVars, taskVars>>

PairScoresCall ==
    /\ op = "none"
    /\ \E item_id \in {10 * i : i \in 0..Len(catalog)} :
        LET r == PairScores(item_id)
        IN  /\ op' = "pair_scores"
            /\ arg' = item_id
            /\ outcome' = r.exc
            /\ result' = r.val
    /\ UNCHANGED <<spellVars, indexVars, rankVars, pipeVars, intentVars, taskVars>>

RetrievalNext == QueryCall \/ RetrieveCall \/ PairScoresCall

SpecRetrieval == RetrievalInit /\ [][RetrievalNext]_vars

(***************************************************************************)
(* search/personalization.py and search/ranking.py: feature building       *)
(***************************************************************************)
Users == {"u1", "u2"}

\* The rows of `merged` that groupby keeps: an interaction whose item_id is
\* not in the catalog gets a missing cuisine from the left merge and groupby
\* drops it.  Each kept row is <<user_id, cuisine, relevance>>.
MergedRows(interactions) ==
    LET Known(r) == r.item_id \in DOMAIN id_to_idx
        kept == SelectSeq(interactions, Known)
    IN  [i \in 1..Len(kept) |->
            <<kept[i].user_id, catalog[id_to_idx[kept[i].item_id]].cuisine,
              kept[i].relevance>>]

RECURSIVE SumRelevance(_, _, _)
SumRelevance(rows, user, cuisine) ==
    IF rows = <<>> THEN 0
    ELSE (IF Head(rows)[1] = user /\ Head(rows)[2] = cuisine THEN Head(rows)[3] ELSE 0)
         + SumRelevance(Tail(rows), user, cuisine)

RECURSIVE SumUser(_, _)
SumUser(rows, user) ==
    IF rows = <<>> THEN 0
    ELSE (IF Head(rows)[1] = user THEN Head(rows)[3] ELSE 0) + SumUser(Tail(rows), user)

\* UserProfiles.__init__ without the division by the user's total.
UserProfilesInitNoTotal(interactions) ==
    LET rows == MergedRows(interactions)
        users == {rows[i][1] : i \in 1..Len(rows)}
        CuisinesOf(u) == {rows[i][2] : i \in {j \in 1..Len(rows) : rows[j][1] = u}}
    IN  [u \in users |-> [c \in CuisinesOf(u) |-> <<SumRelevance(rows, u, c), 1>>]]

\* UserProfiles.__init__: relevance summed per (user, cuisine), then divided
\* by the user's total, or by 1.0 when the total is 0.
UserProfilesInit(interactions) ==
    LET rows == MergedRows(interactions)
        users == {rows[i][1] : i \in 1..Len(rows)}
        CuisinesOf(u) == {rows[i][2] : i \in {j \in 1..Len(rows) : rows[j][1] = u}}
        Total(u) == IF SumUser(rows, u) = 0 THEN 1 ELSE SumUser(rows, u)
    IN  [u \in users |->
            [c \in CuisinesOf(u) |-> <<SumRelevance(rows, u, c), Total(u)>>]]

\* UserProfiles.score: self.profiles.get(user_id, {}).get(cuisine, 0.0)
Score(user_id, cuisine) ==
    IF user_id \in DOMAIN profiles
    THEN IF cuisine \in DOMAIN profiles[user_id]
         THEN profiles[user_id][cuisine]
         ELSE <<0, 1>>
    ELSE <<0, 1>>

\* personalization.py: PRICE_BUCKET.get(str(value).lower(), 1)
PRICE_BUCKET == [cheap |-> 0, medium |-> 1, expensive |-> 2]

price_bucket(value) ==
    IF value \in DOMAIN PRICE_BUCKET THEN PRICE_BUCKET[value] ELSE 1

INTENT_MAP == [product_search |-> 0, faq_search |-> 1, local_search |-> 2]

\* The interactions as <<user_id, key, relevance>>, keyed by the price bucket
\* of the item (items the catalog does not have are dropped) or by the item.
PriceRows(interactions) ==
    LET Known(r) == r.item_id \in DOMAIN id_to_idx
        kept == SelectSeq(interactions, Known)
    IN  [i \in 1..Len(kept) |->
            <<kept[i].user_id,
              price_bucket(catalog[id_to_idx[kept[i].item_id]].price_range),
              kept[i].relevance>>]

ItemRows(interactions) ==
    [i \in 1..Len(interactions) |->
        <<interactions[i].user_id, interactions[i].item_id,
          interactions[i].relevance>>]

\* UserProfiles.price_affinity and UserProfiles.item_bias: relevance summed per
\* key and divided by the user's total; 0.0 for a user or a key never seen.
PriceAffinity(user_id, bucket) ==
    LET rows == PriceRows(labeled_pairs)
        total == SumUser(rows, user_id)
    IN  IF total = 0 THEN <<0, 1>> ELSE <<SumRelevance(rows, user_id, bucket), total>>

ItemBias(user_id, item_id) ==
    LET rows == ItemRows(labeled_pairs)
        total == SumUser(rows, user_id)
    IN  IF total = 0 THEN <<0, 1>> ELSE <<SumRelevance(rows, user_id, item_id), total>>

\* build_cuisine_lexicon: the cuisines of the catalog and two dietary words.
build_cuisine_lexicon ==
    {catalog[i].cuisine : i \in 1..Len(catalog)} \cup {"vegan", "vegetarian"}

\* extract_cuisine_entities: the entries of the lexicon among the tokens.
extract_cuisine_entities(tokens, cuisines) == {c \in cuisines : c \in tokens}

BoolFloat(b) == IF b THEN 1 ELSE 0

\* The locals one iteration of build_feature_rows computes after the pair
\* scores, from the profiles, the signals of the query and the catalog row.
RowSignals(row, item) ==
    LET diet_tags == query_signals.diet_tags
        price_hint == query_signals.price_hint
        intent == query_signals.intent
        cuisines_in_query ==
            extract_cuisine_entities(query_signals.tokens, build_cuisine_lexicon)
        ontology == item.ontology_attrs
        diet_field == IF "dietary" \in DOMAIN ontology
                      THEN Range(ontology.dietary)
                      ELSE {}
        dietary_attr ==
            \/ ("is_vegan_friendly" \in DOMAIN ontology /\ ontology.is_vegan_friendly)
            \/ (diet_tags # {} /\ diet_field \cap diet_tags # {})
        category_attr == IF "category" \in DOMAIN ontology
                         THEN ontology.category
                         ELSE "None"
    IN  [user_pref |-> Score(row.user_id, item.cuisine),
         price_affinity |->
            PriceAffinity(row.user_id, price_bucket(item.price_range)),
         bias |-> ItemBias(row.user_id, row.item_id),
         intent_code |-> IF intent \in DOMAIN INTENT_MAP THEN INTENT_MAP[intent] ELSE 0,
         cuisine_match |-> BoolFloat(item.cuisine \in cuisines_in_query),
         ontology_dietary_match |->
            BoolFloat(dietary_attr \/ (diet_tags # {} /\ item.is_vegan_friendly)),
         ontology_category_match |->
            BoolFloat(category_attr # "None" /\ category_attr \in cuisines_in_query),
         price_hint_match |->
            BoolFloat(price_hint # "None" /\ price_hint = item.price_range)]

\* The features dict with no semantic_score entry when no semantic retriever
\* is there.
FeaturesSparse(lexical_score, semantic_score, item, s) ==
    LET keys == <<"lexical_score", "semantic_score", "rating", "popularity",
                  "is_vegan_friendly", "delivery_time_minutes", "price_bucket",
                  "user_pref_score", "price_affinity", "user_item_bias",
                  "ontology_dietary_match", "ontology_category_match",
                  "price_hint_match", "cuisine_match", "intent_code">>
        values == [lexical_score |-> lexical_score,
                   semantic_score |-> semantic_score,
                   rating |-> item.rating,
                   popularity |-> item.popularity,
                   is_vegan_friendly |-> BoolFloat(item.is_vegan_friendly),
                   delivery_time_minutes |-> item.delivery_time_minutes,
                   price_bucket |-> price_bucket(item.price_range),
                   user_pref_score |-> s.user_pref,
                   price_affinity |-> s.price_affinity,
                   user_item_bias |-> s.bias,
                   ontology_dietary_match |-> s.ontology_dietary_match,
                   ontology_category_match |-> s.ontology_category_match,
                   price_hint_match |-> s.price_hint_match,
                   cuisine_match |-> s.cuisine_match,
                   intent_code |-> s.intent_code]
        Kept(k) == k # "semantic_score" \/ semantic # "None"
    IN  [keys |-> SelectSeq(keys, Kept),
         values |-> [k \in {c \in DOMAIN values : Kept(c)} |-> values[k]]]

\* The features dict literal: its keys in the order they are inserted, and the
\* float() of each value.  The two retrieval scores are in units of Eps, the
\* three profile scores are quotients, the other columns are whole numbers.
Features(lexical_score, semantic_score, item, s) ==
    [keys |-> <<"lexical_score", "semantic_score", "rating", "popularity",
                "is_vegan_friendly", "delivery_time_minutes", "price_bucket",
                "user_pref_score", "price_affinity", "user_item_bias",
                "ontology_dietary_match", "ontology_category_match",
                "price_hint_match", "cuisine_match", "intent_code">>,
     values |-> [lexical_score |-> lexical_score,
                 semantic_score |-> semantic_score,
                 rating |-> item.rating,
                 popularity |-> item.popularity,
                 is_vegan_friendly |-> BoolFloat(item.is_vegan_friendly),
                 delivery_time_minutes |-> item.delivery_time_minutes,
                 price_bucket |-> price_bucket(item.price_range),
                 user_pref_score |-> s.user_pref,
                 price_affinity |-> s.price_affinity,
                 user_item_bias |-> s.bias,
                 ontology_dietary_match |-> s.ontology_dietary_match,
                 ontology_category_match |-> s.ontology_category_match,
                 price_hint_match |-> s.price_hint_match,
                 cuisine_match |-> s.cuisine_match,
                 intent_code |-> s.intent_code]]

\* One iteration of the loop of build_feature_rows.  catalog_by_id.loc[item_id]
\* raises KeyError for an item_id that is not in the catalog; with no semantic
\* retriever the semantic column takes the lexical score.
FeatureRowNoFallback(row) ==
    IF row.item_id \notin DOMAIN id_to_idx
    THEN Raised("KeyError")
    ELSE LET item == catalog[id_to_idx[row.item_id]]
             pair == PairScores(row.item_id)
         IN  IF pair.exc # "none"
             THEN pair
             ELSE LET f == Features(pair.val[1], pair.val[2], item,
                                    RowSignals(row, item))
                  IN  Returned(
                        [query_id |-> row.query_id,
                         user_id |-> row.user_id,
                         item_id |-> row.item_id,
                         features |-> f.values,
                         feature_keys |-> f.keys,
                         label |-> row.relevance])

FeatureRow(row) ==
    IF row.item_id \notin DOMAIN id_to_idx
    THEN Raised("KeyError")
    ELSE LET item == catalog[id_to_idx[row.item_id]]
             pair == PairScores(row.item_id)
         IN  IF pair.exc # "none"
             THEN pair
             ELSE LET lexical_score == pair.val[1]
                      semantic_score == IF semantic = "None"
                                        THEN lexical_score
                                        ELSE pair.val[2]
                      f == Features(lexical_score, semantic_score, item,
                                    RowSignals(row, item))
                  IN  Returned(
                        [query_id |-> row.query_id,
                         user_id |-> row.user_id,
                         item_id |-> row.item_id,
                         features |-> f.values,
                         feature_keys |-> f.keys,
                         label |-> row.relevance])

\* build_feature_rows: the rows built so far, until an iteration raises.
RECURSIVE BuildFeatureRows(_, _)
BuildFeatureRows(labeled_data, feature_rows) ==
    IF labeled_data = <<>>
    THEN Returned(feature_rows)
    ELSE LET r == FeatureRow(Head(labeled_data))
         IN  IF r.exc # "none"
             THEN r
             ELSE BuildFeatureRows(Tail(labeled_data), Append(feature_rows, r.val))

\* item_ids asked about: the catalog's, and one the catalog does not have.
AskedIds == {10 * i : i \in 0..Len(catalog)}

\* Relevance grades of the interactions, and the grade of the rows labelled
\* for feature building.
Relevances == {0, 1}

RowRelevances == {1}

\* The similarities of the rows to the text of the labelled rows: the lexical
\* ones, and the embedding ones when a semantic retriever is there.
LexScoreSample(n) == [i \in 1..n |-> i % 3]

SemScoreSample(n) ==
    [i \in 1..n |-> IF i % 2 = 1 THEN 0 - ((i + 1) \div 2) ELSE i \div 2]

\* The retrievers and the profiles as train_pipeline constructs them; the
\* interactions are all of user u1, with the first item of the catalog or
\* with one it does not have, so u2 is a user the profiles do not know.
FeaturesInit ==
    /\ SpellIdle
    /\ \E n \in 1..MaxCatalog :
        /\ catalog = [i \in 1..n |-> CatalogRow(i)]
        /\ lex_scores = LexScoreSample(n)
        /\ semantic \in {"None", "SemanticRetriever"}
        /\ sem_scores = (IF semantic = "None" THEN <<>> ELSE SemScoreSample(n))
        /\ semantic_weight = <<1, 2>>
    /\ query_text = <<>>
    /\ query_signals = PlainSignals
    /\ labeled_pairs \in SeqsUpTo(
            [user_id : {"u1"}, item_id : {0, 10}, relevance : Relevances],
            MaxInteractions)
    /\ profiles = UserProfilesInit(labeled_pairs)
    /\ CallIdle
    /\ RankerIdle
    /\ PipelineIdle
    /\ IntentIdle
    /\ TaskIdle

BuildFeatureRowsCall ==
    /\ op = "none"
    /\ \E labeled_data \in SeqsUpTo(
            [query_id : {"q1"}, user_id : Users, item_id : AskedIds,
             relevance : RowRelevances], MaxRows) :
        LET r == BuildFeatureRows(labeled_data, <<>>)
        IN  /\ op' = "build_feature_rows"
            /\ arg' = labeled_data
            /\ outcome' = r.exc
            /\ result' = r.val
    /\ UNCHANGED <<spellVars, indexVars, rankVars, pipeVars, intentVars, taskVars>>

ScoreCall ==
    /\ op = "none"
    /\ \E user_id \in Users : \E i \in 1..Len(Cuisines) :
        /\ op' = "score"
        /\ arg' = <<user_id, Cuisines[i]>>
        /\ outcome' = "none"
        /\ result' = Score(user_id, Cuisines[i])
    /\ UNCHANGED <<spellVars, indexVars, rankVars, pipeVars, intentVars, taskVars>>

FeaturesNext == BuildFeatureRowsCall \/ ScoreCall \/ PairScoresCall

SpecFeatures == FeaturesInit /\ [][FeaturesNext]_vars

(***************************************************************************)
(* search/ranking.py: Ranker                                               *)
(*                                                                         *)
(* A feature matrix X is its shape [rows, cols], y is its length and group *)
(* is the list of group sizes.  The estimators are libraries: what the     *)
(* Ranker sees of them is whether fit and predict return or raise, and the *)
(* number of columns a fitted estimator expects.                           *)
(***************************************************************************)
FEATURE_COLUMNS ==
    <<"lexical_score", "semantic_score", "rating", "popularity",
      "is_vegan_friendly", "delivery_time_minutes", "price_bucket",
      "user_pref_score", "price_affinity", "user_item_bias",
      "ontology_dietary_match", "ontology_category_match", "price_hint_match",
      "cuisine_match", "intent_code">>

RECURSIVE Sum(_)
Sum(group) == IF group = <<>> THEN 0 ELSE Head(group) + Sum(Tail(group))

\* Ranker.fit that returns without training the estimator.
FitNoTrain(xgb, features, X, y, group) ==
    IF xgb
    THEN IF y # X.rows \/ Sum(group) # X.rows
         THEN [exc |-> "XGBoostError", features |-> features]
         ELSE [exc |-> "none", features |-> features]
    ELSE IF y # X.rows
         THEN [exc |-> "ValueError", features |-> features]
         ELSE [exc |-> "none", features |-> features]

\* Ranker.fit: the outcome, and the columns the estimator expects afterwards.
\* XGBRanker.fit(X, y, group=group) raises when the labels or the groups do
\* not cover the rows of X.  RandomForestRegressor.fit(X, y) is not handed
\* group: it raises when len(y) differs from len(X) and trains otherwise.  A
\* fit that raises leaves the estimator as it was.
Fit(xgb, features, X, y, group) ==
    IF xgb
    THEN IF y # X.rows \/ Sum(group) # X.rows
         THEN [exc |-> "XGBoostError", features |-> features]
         ELSE [exc |-> "none", features |-> X.cols]
    ELSE IF y # X.rows
         THEN [exc |-> "ValueError", features |-> features]
         ELSE [exc |-> "none", features |-> X.cols]

\* Ranker.predict: self.model.predict(X) raises NotFittedError on an estimator
\* that was not fitted and ValueError on a matrix of another width; otherwise
\* it gives one prediction per row.
Predict(features, X) ==
    IF features = 0
    THEN Raised("NotFittedError")
    ELSE IF X.cols # features
         THEN Raised("ValueError")
         ELSE Returned([i \in 1..X.rows |-> "pred"])

\* Matrices of one row or more, well-formed or one column short.
Matrices ==
    [rows : 1..MaxMatrixRows, cols : {Len(FEATURE_COLUMNS), Len(FEATURE_COLUMNS) - 1}]

WellFormed(X) == X.rows >= 1 /\ X.cols = Len(FEATURE_COLUMNS)

\* Lists of group sizes, as build_matrices counts them.
Groups == SeqsUpTo(1..MaxMatrixRows, MaxMatrixRows)

\* A constructor that takes the fallback whatever can be imported.
RankerNewFallback(importable) == [uses_xgb |-> FALSE, features |-> 0]

\* Ranker.__init__: XGBRanker when xgboost can be imported, otherwise
\* RandomForestRegressor; either way an estimator that is not fitted.
RankerNew(importable) == [uses_xgb |-> importable, features |-> 0]

RankerInit ==
    /\ SpellIdle
    /\ IndexIdle
    /\ CallIdle
    /\ PipelineIdle
    /\ IntentIdle
    /\ TaskIdle
    /\ has_xgboost \in BOOLEAN
    /\ uses_xgb = RankerNew(has_xgboost).uses_xgb
    /\ model_features = RankerNew(has_xgboost).features
    /\ last_fit_cols = 0

FitCall ==
    /\ \E X \in Matrices : \E y \in 0..MaxMatrixRows : \E group \in Groups :
        LET r == Fit(uses_xgb, model_features, X, y, group)
        IN  /\ op' = "fit"
            /\ arg' = [X |-> X, y |-> y, group |-> group]
            /\ outcome' = r.exc
            /\ result' = <<>>
            /\ model_features' = r.features
            /\ last_fit_cols' = (IF r.exc = "none" THEN X.cols ELSE last_fit_cols)
    /\ UNCHANGED <<spellVars, indexVars, has_xgboost, uses_xgb, pipeVars, intentVars,
                   taskVars>>

PredictCall ==
    /\ \E X \in Matrices :
        LET r == Predict(model_features, X)
        IN  /\ op' = "predict"
            /\ arg' = [X |-> X, y |-> 0, group |-> <<>>]
            /\ outcome' = r.exc
            /\ result' = r.val
    /\ UNCHANGED <<spellVars, indexVars, rankVars, pipeVars, intentVars, taskVars>>

RankerNext == FitCall \/ PredictCall

SpecRanker == RankerInit /\ [][RankerNext]_vars

(***************************************************************************)
(* run_demo.py: train_pipeline                                             *)
(*                                                                         *)
(* pc names the last statement that returned.  An exception that no        *)
(* statement of train_pipeline handles ends it: pc = "raised" and outcome  *)
(* is the exception.                                                       *)
(***************************************************************************)
demo_queries == <<"vegan sushi", "fast lunch", "seafood dinner">>

\* The training and the held-out matrix build_matrices makes of the rows.
X_train == [rows |-> MaxMatrixRows, cols |-> Len(FEATURE_COLUMNS)]

X_test == [rows |-> 1, cols |-> Len(FEATURE_COLUMNS)]

PipelineInit ==
    /\ SpellIdle
    /\ IndexIdle
    /\ CallIdle
    /\ has_xgboost \in BOOLEAN
    /\ uses_xgb = FALSE
    /\ model_features = 0
    /\ last_fit_cols = 0
    /\ IntentIdle
    /\ TaskIdle
    /\ pc = "start"
    /\ enable_semantic \in BOOLEAN
    /\ use_dual \in BOOLEAN
    /\ has_sentence_transformers \in BOOLEAN

\* A statement that constructs or computes and changes nothing modelled here.
Step(from, to) ==
    /\ pc = from
    /\ pc' = to
    /\ UNCHANGED <<spellVars, indexVars, callVars, rankVars,
                   enable_semantic, use_dual, has_sentence_transformers, intentVars, taskVars>>

LoadData == Step("start", "loaded")

FitIntentClassifier == Step("loaded", "intent_classifier")

BuildSpellCorrector == Step("intent_classifier", "spell_corrector")

BuildLexical == Step("spell_corrector", "lexical")

\* semantic = None, and under enable_semantic the dual encoder or the
\* SemanticRetriever: train_dual_encoder and SemanticRetriever.__init__ raise
\* ImportError when sentence_transformers cannot be imported, and
\* train_pipeline has no handler around either.
SemanticConstructed ==
    IF ~enable_semantic
    THEN Returned("None")
    ELSE IF ~has_sentence_transformers
         THEN Raised("ImportError")
         ELSE IF use_dual
              THEN Returned("DualEncoderRetriever")
              ELSE Returned("SemanticRetriever")

BuildSemantic ==
    /\ pc = "lexical"
    /\ LET r == SemanticConstructed
       IN  IF r.exc # "none"
           THEN /\ pc' = "raised"
                /\ outcome' = r.exc
                /\ UNCHANGED semantic
           ELSE /\ pc' = "semantic"
                /\ semantic' = r.val
                /\ UNCHANGED outcome
    /\ UNCHANGED <<spellVars, catalog, lex_scores, sem_scores, semantic_weight,
                   query_text, query_signals, labeled_pairs, profiles, op, arg, result,
                   rankVars,
                   enable_semantic, use_dual, has_sentence_transformers, intentVars, taskVars>>

BuildHybrid == Step("semantic", "hybrid")

BuildUserProfiles == Step("hybrid", "user_profiles")

BuildRows == Step("user_profiles", "feature_rows")

BuildMatrices == Step("feature_rows", "matrices")

\* ranker = Ranker()
ConstructRanker ==
    /\ pc = "matrices"
    /\ pc' = "ranker"
    /\ uses_xgb' = RankerNew(has_xgboost).uses_xgb
    /\ model_features' = RankerNew(has_xgboost).features
    /\ UNCHANGED <<spellVars, indexVars, callVars, has_xgboost, last_fit_cols,
                   enable_semantic, use_dual, has_sentence_transformers, intentVars, taskVars>>

\* ranker.fit(X_train, y_train, group=group_train)
FitRanker ==
    /\ pc = "ranker"
    /\ LET r == Fit(uses_xgb, model_features, X_train, X_train.rows, <<X_train.rows>>)
       IN  /\ pc' = (IF r.exc = "none" THEN "fit" ELSE "raised")
           /\ outcome' = r.exc
           /\ model_features' = r.features
           /\ last_fit_cols' = (IF r.exc = "none" THEN X_train.cols ELSE last_fit_cols)
    /\ UNCHANGED <<spellVars, indexVars, op, arg, result, has_xgboost, uses_xgb,
                   enable_semantic, use_dual, has_sentence_transformers, intentVars, taskVars>>

\* preds = ranker.predict(X_test)
PredictRanker ==
    /\ pc = "fit"
    /\ LET r == Predict(model_features, X_test)
       IN  /\ pc' = (IF r.exc = "none" THEN "preds" ELSE "raised")
           /\ outcome' = r.exc
           /\ result' = r.val
    /\ UNCHANGED <<spellVars, indexVars, op, arg, rankVars,
                   enable_semantic, use_dual, has_sentence_transformers, intentVars, taskVars>>

\* metrics = evaluate_predictions(...) and the report; arg counts the demo
\* queries run so far.
Evaluate ==
    /\ pc = "preds"
    /\ pc' = "metrics"
    /\ arg' = 0
    /\ UNCHANGED <<spellVars, indexVars, op, outcome, result, rankVars,
                   enable_semantic, use_dual, has_sentence_transformers, intentVars, taskVars>>

\* One iteration of `for q in demo_queries`.
RunDemoQuery ==
    /\ pc = "metrics"
    /\ arg < Len(demo_queries)
    /\ arg' = arg + 1
    /\ UNCHANGED <<spellVars, indexVars, op, outcome, result, rankVars, pipeVars, intentVars, taskVars>>

\* The loop is exhausted and train_pipeline returns.
ReturnFromPipeline ==
    /\ pc = "metrics"
    /\ arg = Len(demo_queries)
    /\ pc' = "returned"
    /\ UNCHANGED <<spellVars, indexVars, callVars, rankVars,
                   enable_semantic, use_dual, has_sentence_transformers, intentVars, taskVars>>

PipelineNext ==
    \/ LoadData
    \/ FitIntentClassifier
    \/ BuildSpellCorrector
    \/ BuildLexical
    \/ BuildSemantic
    \/ BuildHybrid
    \/ BuildUserProfiles
    \/ BuildRows
    \/ BuildMatrices
    \/ ConstructRanker
    \/ FitRanker
    \/ PredictRanker
    \/ Evaluate
    \/ RunDemoQuery
    \/ ReturnFromPipeline

SpecPipeline == PipelineInit /\ [][PipelineNext]_vars

(***************************************************************************)
(* search/query_understanding.py: normalize_query                          *)
(*                                                                         *)
(* A text is a sequence of characters.  The characters tried stand for the *)
(* classes the two regular expressions and str.lower() tell apart: a       *)
(* lowercase letter, an uppercase letter, a digit, punctuation, the space, *)
(* another whitespace character, and a letter whose lowercase is two       *)
(* characters (U+0130 gives "i" and the combining dot U+0307).             *)
(***************************************************************************)
TextChars == {"a", "B", "7", "-", " ", "\t", "U+0130"}

\* str.lower() of one character.
LowerOf(c) ==
    IF c = "B" THEN <<"b">>
    ELSE IF c = "U+0130" THEN <<"i", "U+0307">>
    ELSE <<c>>

\* text.lower()
RECURSIVE StrLower(_)
StrLower(text) ==
    IF text = <<>> THEN <<>> ELSE LowerOf(Head(text)) \o StrLower(Tail(text))

\* The classes [a-z0-9] and \s of the patterns.
IsLowerAlnum(c) == c \in {"a", "b", "i", "7"}

IsSpace(c) == c \in {" ", "\t"}

\* re.sub(r"[^a-z0-9\s]", " ", text)
SubNonAlnum(text) ==
    [i \in 1..Len(text) |->
        IF IsLowerAlnum(text[i]) \/ IsSpace(text[i]) THEN text[i] ELSE " "]

RECURSIVE DropSpaces(_)
DropSpaces(text) ==
    IF text # <<>> /\ IsSpace(Head(text)) THEN DropSpaces(Tail(text)) ELSE text

\* re.sub(r"\s+", " ", text)
RECURSIVE SubSpaceRuns(_)
SubSpaceRuns(text) ==
    IF text = <<>> THEN <<>>
    ELSE IF IsSpace(Head(text))
         THEN <<" ">> \o SubSpaceRuns(DropSpaces(Tail(text)))
         ELSE <<Head(text)>> \o SubSpaceRuns(Tail(text))

RECURSIVE DropTrailingSpaces(_)
DropTrailingSpaces(text) ==
    IF text # <<>> /\ IsSpace(text[Len(text)])
    THEN DropTrailingSpaces(SubSeq(text, 1, Len(text) - 1))
    ELSE text

\* str.strip()
Strip(text) == DropTrailingSpaces(DropSpaces(text))

\* normalize_query without the final strip().
NormalizeQueryNoStrip(text) == SubSpaceRuns(SubNonAlnum(StrLower(text)))

normalize_query(text) == Strip(SubSpaceRuns(SubNonAlnum(StrLower(text))))

NormalizeInit ==
    /\ SpellIdle
    /\ IndexIdle
    /\ CallIdle
    /\ RankerIdle
    /\ PipelineIdle
    /\ IntentIdle
    /\ TaskIdle

\* normalize_query(text) on a raw text.
NormalizeCall ==
    /\ op = "none"
    /\ \E text \in SeqsUpTo(TextChars, MaxTextLen) :
        /\ op' = "normalize_query"
        /\ arg' = text
        /\ outcome' = "none"
        /\ result' = normalize_query(text)
    /\ UNCHANGED <<spellVars, indexVars, rankVars, pipeVars, intentVars, taskVars>>

\* normalize_query on what normalize_query returned, as extract_cuisine_entities
\* does with the normalized query it is handed.
NormalizeAgainCall ==
    /\ op = "normalize_query"
    /\ op' = "normalize_query_again"
    /\ arg' = result
    /\ outcome' = "none"
    /\ result' = normalize_query(result)
    /\ UNCHANGED <<spellVars, indexVars, rankVars, pipeVars, intentVars, taskVars>>

NormalizeNext == NormalizeCall \/ NormalizeAgainCall

SpecNormalize == NormalizeInit /\ [][NormalizeNext]_vars

(***************************************************************************)
(* search/query_understanding.py: IntentClassifier                         *)
(*                                                                         *)
(* self.pipeline is a library: a vectorizer followed by a classifier.      *)
(* Pipeline.fit fits the vectorizer first, which raises on a corpus with   *)
(* no terms, then the classifier, which raises when the labels do not      *)
(* match the texts in number or are of fewer than two classes.  texts is   *)
(* its length, labels the list of labels, queries its length.              *)
(***************************************************************************)
IntentLabels == {"product_search", "faq_search", "local_search"}

\* IntentClassifier.fit that trains the pipeline and leaves is_fitted alone.
IntentFitNoFlag(state, texts, labels) ==
    IF texts = 0
    THEN [exc |-> "ValueError", state |-> state]
    ELSE IF texts # Len(labels) \/ Cardinality(Range(labels)) < 2
         THEN [exc |-> "ValueError",
               state |-> [state EXCEPT !.tfidf_refit = (state.clf_classes # {})]]
         ELSE [exc |-> "none",
               state |-> [state EXCEPT !.clf_classes = Range(labels),
                                       !.tfidf_refit = FALSE]]

\* IntentClassifier.fit: self.pipeline.fit(texts, labels), then is_fitted.
IntentFit(state, texts, labels) ==
    IF texts = 0
    THEN [exc |-> "ValueError", state |-> state]
    ELSE IF texts # Len(labels) \/ Cardinality(Range(labels)) < 2
         THEN [exc |-> "ValueError",
               state |-> [state EXCEPT !.tfidf_refit = (state.clf_classes # {})]]
         ELSE [exc |-> "none",
               state |-> [is_fitted |-> TRUE,
                          clf_classes |-> Range(labels),
                          tfidf_refit |-> FALSE]]

\* IntentClassifier.predict, every outcome: the default label per query while
\* is_fitted is false; otherwise what self.pipeline.predict gives, a learned
\* label per query, or ValueError for no query at all, or possibly ValueError
\* when the vectorizer no longer has the width the classifier was fitted on.
IntentPredict(state, queries) ==
    IF ~state.is_fitted
    THEN {Returned([i \in 1..queries |-> "product_search"])}
    ELSE IF queries = 0
         THEN {Raised("ValueError")}
         ELSE {Returned(labels) : labels \in [1..queries -> state.clf_classes]}
              \cup (IF state.tfidf_refit THEN {Raised("ValueError")} ELSE {})

IntentState ==
    [is_fitted |-> is_fitted, clf_classes |-> clf_classes, tfidf_refit |-> tfidf_refit]

\* IntentClassifier.__init__
IntentInit ==
    /\ SpellIdle
    /\ IndexIdle
    /\ CallIdle
    /\ RankerIdle
    /\ PipelineIdle
    /\ TaskIdle
    /\ is_fitted = FALSE
    /\ clf_classes = {}
    /\ tfidf_refit = FALSE
    /\ fit_returned = FALSE

IntentFitCall ==
    /\ \E texts \in 0..MaxTrain : \E labels \in SeqsUpTo(IntentLabels, MaxTrain) :
        LET r == IntentFit(IntentState, texts, labels)
        IN  /\ op' = "intent_fit"
            /\ arg' = <<texts, labels>>
            /\ outcome' = r.exc
            /\ result' = <<>>
            /\ is_fitted' = r.state.is_fitted
            /\ clf_classes' = r.state.clf_classes
            /\ tfidf_refit' = r.state.tfidf_refit
            /\ fit_returned' = (fit_returned \/ r.exc = "none")
    /\ UNCHANGED <<spellVars, indexVars, rankVars, pipeVars, taskVars>>

IntentPredictCall ==
    /\ \E queries \in 0..MaxQueries : \E r \in IntentPredict(IntentState, queries) :
        /\ op' = "intent_predict"
        /\ arg' = queries
        /\ outcome' = r.exc
        /\ result' = r.val
    /\ UNCHANGED <<spellVars, indexVars, rankVars, pipeVars, intentVars, taskVars>>

IntentNext == IntentFitCall \/ IntentPredictCall

SpecIntent == IntentInit /\ [][IntentNext]_vars

(***************************************************************************)
(* search/personalization.py: UserProfiles built from any interactions     *)
(***************************************************************************)
\* Relevance grades of the interactions the profiles are built from.
ProfileRelevances == {0, 1, 2}

\* UserProfiles(labeled_pairs, catalog) over a catalog of MaxProfileItems
\* rows; an interaction may name an item the catalog does not have.
ProfilesInit ==
    /\ SpellIdle
    /\ CallIdle
    /\ RankerIdle
    /\ PipelineIdle
    /\ IntentIdle
    /\ TaskIdle
    /\ catalog = [i \in 1..MaxProfileItems |-> CatalogRow(i)]
    /\ lex_scores = LexScoreSample(MaxProfileItems)
    /\ semantic = "None"
    /\ sem_scores = <<>>
    /\ semantic_weight = <<1, 2>>
    /\ query_text = <<>>
    /\ query_signals = PlainSignals
    /\ labeled_pairs \in SeqsUpTo(
            [user_id : Users, item_id : AskedIds, relevance : ProfileRelevances],
            MaxProfileInteractions)
    /\ profiles = UserProfilesInit(labeled_pairs)

ProfilesNext == ScoreCall

SpecProfiles == ProfilesInit /\ [][ProfilesNext]_vars

(***************************************************************************)
(* search/ranking.py: build_matrices                                       *)
(*                                                                         *)
(* A FeatureRow is [query_id, features, label] with features a mapping     *)
(* from the FEATURE_COLUMNS to numbers.                                    *)
(***************************************************************************)
\* group_counts after the loop over rows: the keys in insertion order and the
\* count of each.
RECURSIVE GroupCounts(_, _, _)
GroupCounts(rows, keys, counts) ==
    IF rows = <<>>
    THEN [keys |-> keys, counts |-> counts]
    ELSE LET q == Head(rows).query_id
         IN  IF q \in Range(keys)
             THEN GroupCounts(Tail(rows), keys, [counts EXCEPT ![q] = @ + 1])
             ELSE GroupCounts(Tail(rows), Append(keys, q),
                              [k \in DOMAIN counts \cup {q} |->
                                  IF k = q THEN 1 ELSE counts[k]])

\* list(group_counts.values())
GroupSizes(rows) ==
    LET g == GroupCounts(rows, <<>>, <<>>)
    IN  [i \in 1..Len(g.keys) |-> g.counts[g.keys[i]]]

\* Group sizes counted per run of equal query_id instead of per query_id.
RECURSIVE GroupSizesByRun(_)
GroupSizesByRun(rows) ==
    IF rows = <<>> THEN <<>>
    ELSE LET rest == GroupSizesByRun(Tail(rows))
         IN  IF Len(rows) >= 2 /\ rows[2].query_id = rows[1].query_id
             THEN <<Head(rest) + 1>> \o Tail(rest)
             ELSE <<1>> \o rest

\* build_matrices with the sizes counted per run.
BuildMatricesByRun(rows) ==
    [X |-> [i \in 1..Len(rows) |->
              [j \in 1..Len(FEATURE_COLUMNS) |-> rows[i].features[FEATURE_COLUMNS[j]]]],
     y |-> [i \in 1..Len(rows) |-> rows[i].label],
     group |-> GroupSizesByRun(rows),
     rows |-> rows]

build_matrices(rows) ==
    [X |-> [i \in 1..Len(rows) |->
              [j \in 1..Len(FEATURE_COLUMNS) |-> rows[i].features[FEATURE_COLUMNS[j]]]],
     y |-> [i \in 1..Len(rows) |-> rows[i].label],
     group |-> GroupSizes(rows),
     rows |-> rows]

\* Two feature mappings that differ in every column, each with a value per
\* column that tells the columns apart.
FeatureMaps ==
    {[c \in Range(FEATURE_COLUMNS) |->
         (CHOOSE j \in 1..Len(FEATURE_COLUMNS) : FEATURE_COLUMNS[j] = c) + shift] :
       shift \in {0, 100}}

QueryIds == {"q1", "q2"}

Labels == {0, 1}

MatricesInit ==
    /\ SpellIdle
    /\ IndexIdle
    /\ CallIdle
    /\ RankerIdle
    /\ PipelineIdle
    /\ IntentIdle
    /\ TaskIdle

BuildMatricesCall ==
    /\ op = "none"
    /\ \E rows \in SeqsUpTo([query_id : QueryIds, features : FeatureMaps, label : Labels],
                            MaxFeatureRows) :
        /\ op' = "build_matrices"
        /\ arg' = rows
        /\ outcome' = "none"
        /\ result' = build_matrices(rows)
    /\ UNCHANGED <<spellVars, indexVars, rankVars, pipeVars, intentVars, taskVars>>

MatricesNext == BuildMatricesCall

SpecMatrices == MatricesInit /\ [][MatricesNext]_vars

(***************************************************************************)
(* search/ranking.py: build_feature_rows over every optional signal        *)
(***************************************************************************)
\* What query understanding can derive from the text of the labelled rows,
\* the intent aside: nothing, a cuisine of the catalog, or a dietary tag and a
\* price hint.
QuerySignals ==
    {[tokens |-> {"fast", "lunch"}, diet_tags |-> {}, price_hint |-> "None"],
     [tokens |-> {"japanese", "dinner"}, diet_tags |-> {}, price_hint |-> "None"],
     [tokens |-> {"cheap", "vegan"}, diet_tags |-> {"vegan"}, price_hint |-> "cheap"]}

\* The classifier as constructed, or fitted on labels of which one is not in
\* INTENT_MAP.
IntentStates ==
    {[is_fitted |-> FALSE, clf_classes |-> {}],
     [is_fitted |-> TRUE, clf_classes |-> {"faq_search", "menu_search"}]}

\* A catalog with and without ontology attributes, with or without a semantic
\* retriever, profiles that know u1 only, and the intent the classifier
\* predicts for the text of the rows.
SchemaInit ==
    /\ SpellIdle
    /\ TaskIdle
    /\ catalog = [i \in 1..MaxCatalog |-> CatalogRow(i)]
    /\ lex_scores = LexScoreSample(MaxCatalog)
    /\ semantic \in {"None", "SemanticRetriever"}
    /\ sem_scores = (IF semantic = "None" THEN <<>> ELSE SemScoreSample(MaxCatalog))
    /\ semantic_weight = <<1, 2>>
    /\ labeled_pairs \in SeqsUpTo(
            [user_id : {"u1"}, item_id : {10}, relevance : RowRelevances],
            MaxInteractions)
    /\ profiles = UserProfilesInit(labeled_pairs)
    /\ \E st \in IntentStates :
        /\ is_fitted = st.is_fitted
        /\ clf_classes = st.clf_classes
        /\ tfidf_refit = FALSE
        /\ fit_returned = st.is_fitted
    /\ query_text = <<>>
    /\ \E q \in QuerySignals : \E intent \in IntentLabels \cup {"menu_search"} :
        query_signals = [tokens |-> q.tokens,
                         intent |-> intent,
                         diet_tags |-> q.diet_tags,
                         price_hint |-> q.price_hint]
    /\ Returned(<<query_signals.intent>>) \in IntentPredict(IntentState, 1)
    /\ CallIdle
    /\ RankerIdle
    /\ PipelineIdle

SchemaNext == BuildFeatureRowsCall

SpecSchema == SchemaInit /\ [][SchemaNext]_vars

(***************************************************************************)
(* search/retrieval.py: the TF-IDF similarities of LexicalRetriever        *)
(***************************************************************************)
\* The words texts are made of: two words, one of them also capitalised, and
\* a word of one character.  A text is a sequence of words.
RawWords == {"vegan", "sushi", "Sushi", "a"}

\* The vectorizer's analyzer: lowercase, then the words of two or more
\* characters, then the 1-grams and 2-grams of those (ngram_range=(1, 2)).
LowerWord(w) == IF w = "Sushi" THEN "sushi" ELSE w

Analyze(text) ==
    LET IsToken(w) == w # "a"
    IN  SelectSeq([i \in 1..Len(text) |-> LowerWord(text[i])], IsToken)

Ngrams(text) ==
    LET tokens == Analyze(text)
    IN  IF tokens = <<>>
        THEN <<>>
        ELSE [i \in 1..Len(tokens) |-> <<tokens[i]>>]
                \o [i \in 1..(Len(tokens) - 1) |-> <<tokens[i], tokens[i + 1]>>]

\* vocabulary_ after fit_transform(catalog["text"]).
Vocabulary(docs) == UNION {Range(Ngrams(docs[i])) : i \in 1..Len(docs)}

Tf(f, text) ==
    LET grams == Ngrams(text)
    IN  Cardinality({i \in 1..Len(grams) : grams[i] = f})

Df(f, docs) == Cardinality({i \in 1..Len(docs) : f \in Range(Ngrams(docs[i]))})

\* idf_ of a catalog of two rows, ln(3 / (1 + df)) + 1, in fifths: 1 for a
\* term of both rows, and 1.405... for a term of one, taken as 7/5.
Idf(df) == IF df = 2 THEN 5 ELSE 7

\* A row of transform() before the l2 norm; terms outside the vocabulary are
\* dropped.
TfidfRow(text, docs) == [f \in Vocabulary(docs) |-> Tf(f, text) * Idf(Df(f, docs))]

RECURSIVE DotOver(_, _, _)
DotOver(u, v, F) ==
    IF F = {} THEN 0
    ELSE LET f == CHOOSE g \in F : TRUE
         IN  u[f] * v[f] + DotOver(u, v, F \ {f})

Dot(u, v) == DotOver(u, v, DOMAIN u)

RECURSIVE Isqrt(_)
Isqrt(n) ==
    IF n < 2 THEN n
    ELSE LET r == 2 * Isqrt(n \div 4)
         IN  IF (r + 1) * (r + 1) <= n THEN r + 1 ELSE r

CeilSqrt(n) == IF Isqrt(n) * Isqrt(n) = n THEN Isqrt(n) ELSE Isqrt(n) + 1

\* linear_kernel of rows the vectorizer did not normalize (norm=None).
LinearKernelNoNorm(text, doc, docs) ==
    LET u == TfidfRow(text, docs)
        v == TfidfRow(doc, docs)
    IN  1000 * ((1000 * Dot(u, v)) \div 25)

\* linear_kernel(q_vec, doc_matrix[idx]): the dot product of the two rows
\* over the product of their norms, 0 when a row has no term; in units of
\* Eps, in steps of a thousandth rounded down.
LinearKernel(text, doc, docs) ==
    LET u == TfidfRow(text, docs)
        v == TfidfRow(doc, docs)
    IN  IF Dot(u, v) = 0
        THEN 0
        ELSE 1000 * ((1000 * Dot(u, v)) \div CeilSqrt(Dot(u, u) * Dot(v, v)))

Texts == SeqsUpTo(RawWords, MaxWords)

\* A catalog of two rows, one with the text of the query and one with
\* another text, in either order, and no semantic retriever.  fit_transform
\* raises ValueError for texts that leave the vocabulary empty, so no
\* LexicalRetriever exists for those.
MatchInit ==
    /\ SpellIdle
    /\ query_text \in Texts
    /\ \E other \in Texts \ {query_text} :
       \E docs \in {<<query_text, other>>, <<other, query_text>>} :
        /\ Vocabulary(docs) # {}
        /\ catalog = [i \in 1..2 |-> CatalogRow(i) @@ [text |-> docs[i]]]
        /\ lex_scores = [i \in 1..2 |-> LinearKernel(query_text, docs[i], docs)]
    /\ semantic = "None"
    /\ sem_scores = <<>>
    /\ semantic_weight = <<1, 2>>
    /\ query_signals = PlainSignals
    /\ labeled_pairs = <<>>
    /\ profiles = <<>>
    /\ CallIdle
    /\ RankerIdle
    /\ PipelineIdle
    /\ IntentIdle
    /\ TaskIdle

MatchNext == QueryCall \/ RetrieveCall \/ PairScoresCall

SpecMatch == MatchInit /\ [][MatchNext]_vars

(***************************************************************************)
(* search/evaluation.py                                                    *)
(***************************************************************************)
\* s[:k] of Python: the first k elements, or all but the last -k when k < 0.
Slice(s, k) ==
    LET n == IF k >= 0
             THEN MinOf(k, Len(s))
             ELSE IF Len(s) + k > 0 THEN Len(s) + k ELSE 0
    IN  SubSeq(s, 1, n)

RECURSIVE Pow2(_)
Pow2(n) == IF n = 0 THEN 1 ELSE 2 * Pow2(n - 1)

\* The positions whose discount log2(i + 1) is a whole number.
WholeDiscounts == {1, 3, 7}

\* A sum of gains[i] / log2(i + 1), kept exactly: the terms with a whole
\* discount (1, 2 and 3 at positions 1, 3 and 7) added up in sixths, and the
\* gain at every other position, each of which divides by another logarithm.
DcgValue(gains) ==
    LET G(i) == IF i <= Len(gains) THEN gains[i] ELSE 0
    IN  [sixths |-> 6 * G(1) + 3 * G(3) + 2 * G(7),
         logs |-> [i \in 1..(MaxRels + 1) |->
                      IF i \in WholeDiscounts THEN 0 ELSE G(i)]]

DcgZero == DcgValue(<<>>)

\* dcg_at_k: gains 2 ** rel - 1 of rels[:k] over the discounts of their
\* positions, summed.
dcg_at_k(rels, k) ==
    LET cut == Slice(rels, k)
        gains == [i \in 1..Len(cut) |-> Pow2(cut[i]) - 1]
    IN  DcgValue(gains)

\* sorted(rels, reverse=True)
RECURSIVE InsertRelDesc(_, _)
InsertRelDesc(sorted, x) ==
    IF sorted = <<>> THEN <<x>>
    ELSE IF Head(sorted) >= x
         THEN <<Head(sorted)>> \o InsertRelDesc(Tail(sorted), x)
         ELSE <<x>> \o sorted

\* sorted(rels), ascending.
SortedNoReverse(rels) ==
    LET RECURSIVE Asc(_)
        Asc(r) == IF r = <<>> THEN <<>>
                  ELSE LET lo == CHOOSE i \in 1..Len(r) : \A j \in 1..Len(r) : r[i] <= r[j]
                       IN  <<r[lo]>> \o Asc([j \in 1..(Len(r) - 1) |->
                                                IF j < lo THEN r[j] ELSE r[j + 1]])
    IN  Asc(rels)

RECURSIVE SortedReverse(_)
SortedReverse(rels) ==
    IF rels = <<>> THEN <<>>
    ELSE InsertRelDesc(SortedReverse(SubSeq(rels, 1, Len(rels) - 1)), rels[Len(rels)])

\* The float 0.0 returned as a literal, and the quotient of two sums.
Literal0 == [divided |-> FALSE, num |-> DcgZero, den |-> DcgValue(<<1>>)]

Quotient(num, den) == [divided |-> TRUE, num |-> num, den |-> den]

\* ndcg_at_k that divides by the ideal DCG whatever it is.
NdcgAtKNoGuard(rels, k) ==
    Quotient(dcg_at_k(rels, k), dcg_at_k(SortedReverse(rels), k))

\* ndcg_at_k: 0.0 when the DCG of the list sorted descending is 0, else the
\* DCG of the list over it.
ndcg_at_k(rels, k) ==
    LET ideal == SortedReverse(rels)
        idcg == dcg_at_k(ideal, k)
    IN  IF idcg = DcgZero
        THEN Literal0
        ELSE Quotient(dcg_at_k(rels, k), idcg)

\* mrr_at_k that looks through the whole list.
MrrAtKNoCut(rels, k) ==
    LET hits == {i \in 1..Len(rels) : rels[i] > 0}
    IN  IF hits = {}
        THEN <<0, 1>>
        ELSE <<1, CHOOSE i \in hits : \A j \in hits : i <= j>>

\* mrr_at_k: 1.0 / idx for the first idx, counted from 1, of rels[:k] with a
\* positive relevance, as <<numerator, denominator>>; 0.0 when there is none.
mrr_at_k(rels, k) ==
    LET cut == Slice(rels, k)
        hits == {i \in 1..Len(cut) : cut[i] > 0}
    IN  IF hits = {}
        THEN <<0, 1>>
        ELSE <<1, CHOOSE i \in hits : \A j \in hits : i <= j>>

\* zip(rows, preds): as many pairs as the shorter of the two has.
ZipPairs(rows, preds) ==
    [i \in 1..MinOf(Len(rows), Len(preds)) |->
        [query_id |-> rows[i].query_id, pred |-> preds[i], label |-> rows[i].label]]

\* The keys of per_query, in the order setdefault inserted them.
RECURSIVE QueryKeys(_, _)
QueryKeys(pairs, keys) ==
    IF pairs = <<>> THEN keys
    ELSE IF Head(pairs).query_id \in Range(keys)
         THEN QueryKeys(Tail(pairs), keys)
         ELSE QueryKeys(Tail(pairs), Append(keys, Head(pairs).query_id))

\* pairs.sort(key=lambda x: x[0], reverse=True): descending by prediction,
\* pairs of equal prediction staying in the order they were appended.
RECURSIVE InsertPredDesc(_, _)
InsertPredDesc(sorted, x) ==
    IF sorted = <<>> THEN <<x>>
    ELSE IF Head(sorted).pred >= x.pred
         THEN <<Head(sorted)>> \o InsertPredDesc(Tail(sorted), x)
         ELSE <<x>> \o sorted

RECURSIVE SortPredDesc(_)
SortPredDesc(pairs) ==
    IF pairs = <<>> THEN <<>>
    ELSE InsertPredDesc(SortPredDesc(SubSeq(pairs, 1, Len(pairs) - 1)),
                        pairs[Len(pairs)])

\* labels_sorted of the group of query_id q.
LabelsSorted(pairs, q) ==
    LET InGroup(p) == p.query_id = q
        group == SortPredDesc(SelectSeq(pairs, InGroup))
    IN  [i \in 1..Len(group) |-> group[i].label]

RECURSIVE FracSum(_)
FracSum(fracs) ==
    IF fracs = <<>> THEN <<0, 1>>
    ELSE LET rest == FracSum(Tail(fracs))
         IN  <<Head(fracs)[1] * rest[2] + rest[1] * Head(fracs)[2],
               Head(fracs)[2] * rest[2]>>

\* np.mean of a list of quotients of sums: the list and its length.
MeanOf(values) == [terms |-> values, n |-> Len(values)]

\* The float 0.0 returned for mean_ndcg when there is no group.
MeanLiteral0 == [terms |-> <<>>, n |-> 1]

\* np.mean of a list of fractions, as <<numerator, denominator>>.
FracMean(fracs) ==
    LET total == FracSum(fracs)
    IN  <<total[1], total[2] * Len(fracs)>>

\* evaluate_predictions that appends the metrics of a group once per pair of
\* the group.
EvaluatePerPair(rows, preds, k) ==
    LET pairs == ZipPairs(rows, preds)
        ndcgs == [i \in 1..Len(pairs) |->
                    ndcg_at_k(LabelsSorted(pairs, pairs[i].query_id), k)]
        mrrs == [i \in 1..Len(pairs) |->
                    mrr_at_k(LabelsSorted(pairs, pairs[i].query_id), k)]
    IN  [mean_ndcg |-> IF ndcgs = <<>> THEN MeanLiteral0 ELSE MeanOf(ndcgs),
         mean_mrr |-> IF mrrs = <<>> THEN <<0, 1>> ELSE FracMean(mrrs)]

\* evaluate_predictions: the pairs per query_id, each group sorted by
\* prediction, its NDCG@k and MRR@k, and the mean of each over the groups
\* (0.0 when there is no group).
evaluate_predictions(rows, preds, k) ==
    LET pairs == ZipPairs(rows, preds)
        keys == QueryKeys(pairs, <<>>)
        ndcgs == [i \in 1..Len(keys) |-> ndcg_at_k(LabelsSorted(pairs, keys[i]), k)]
        mrrs == [i \in 1..Len(keys) |-> mrr_at_k(LabelsSorted(pairs, keys[i]), k)]
    IN  [mean_ndcg |-> IF ndcgs = <<>> THEN MeanLiteral0 ELSE MeanOf(ndcgs),
         mean_mrr |-> IF mrrs = <<>> THEN <<0, 1>> ELSE FracMean(mrrs)]

\* Relevance grades, cut-offs and predictions handed to the metrics.
Grades == 0..MaxRelevance

CutOffs == (0 - 1)..MaxK

PredValues == {0, 1, 2}

EvalQueryIds == {"q1", "q2"}

EvalLabels == {0, 1}

EvaluationInit ==
    /\ SpellIdle
    /\ IndexIdle
    /\ CallIdle
    /\ RankerIdle
    /\ PipelineIdle
    /\ IntentIdle
    /\ TaskIdle

DcgCall ==
    /\ op = "none"
    /\ \E rels \in SeqsUpTo(Grades, MaxRels) : \E k \in CutOffs :
        /\ op' = "dcg_at_k"
        /\ arg' = <<rels, k>>
        /\ outcome' = "none"
        /\ result' = dcg_at_k(rels, k)
    /\ UNCHANGED <<spellVars, indexVars, rankVars, pipeVars, intentVars, taskVars>>

NdcgCall ==
    /\ op = "none"
    /\ \E rels \in SeqsUpTo(Grades, MaxRels) : \E k \in CutOffs :
        /\ op' = "ndcg_at_k"
        /\ arg' = <<rels, k>>
        /\ outcome' = "none"
        /\ result' = ndcg_at_k(rels, k)
    /\ UNCHANGED <<spellVars, indexVars, rankVars, pipeVars, intentVars, taskVars>>

MrrCall ==
    /\ op = "none"
    /\ \E rels \in SeqsUpTo(Grades, MaxRels) : \E k \in CutOffs :
        /\ op' = "mrr_at_k"
        /\ arg' = <<rels, k>>
        /\ outcome' = "none"
        /\ result' = mrr_at_k(rels, k)
    /\ UNCHANGED <<spellVars, indexVars, rankVars, pipeVars, intentVars, taskVars>>

EvaluateCall ==
    /\ op = "none"
    /\ \E rows \in SeqsUpTo([query_id : EvalQueryIds, label : EvalLabels], MaxEvalRows) :
       \E preds \in SeqsUpTo(PredValues, MaxEvalRows) :
       \E k \in {1, MaxK} :
        /\ op' = "evaluate_predictions"
        /\ arg' = <<rows, preds, k>>
        /\ outcome' = "none"
        /\ result' = evaluate_predictions(rows, preds, k)
    /\ UNCHANGED <<spellVars, indexVars, rankVars, pipeVars, intentVars, taskVars>>

EvaluationNext == DcgCall \/ NdcgCall \/ MrrCall \/ EvaluateCall

SpecEvaluation == EvaluationInit /\ [][EvaluationNext]_vars

(***************************************************************************)
(* The constructed components in use: any sequence of calls on the         *)
(* retrievers, the profiles and the classifier, and of build_feature_rows, *)
(* build_matrices and evaluate_predictions.  None of the methods assigns   *)
(* an attribute of self or writes into the catalog; the one container a    *)
(* lookup could grow is the dict self.profiles.                            *)
(***************************************************************************)
\* self.profiles after a lookup that stores the default it returns, as
\* setdefault does.
ProfilesAfterSetdefault(p, user_id) ==
    IF user_id \in DOMAIN p
    THEN p
    ELSE [u \in DOMAIN p \cup {user_id} |-> IF u = user_id THEN <<>> ELSE p[u]]

\* self.profiles after score(user_id, cuisine): dict.get returns its default
\* without storing it.
ProfilesAfterScore(p, user_id) == p

\* self.profiles after build_feature_rows has called score for every row.
RECURSIVE ProfilesAfterRows(_, _)
ProfilesAfterRows(p, labeled_data) ==
    IF labeled_data = <<>> THEN p
    ELSE ProfilesAfterRows(ProfilesAfterScore(p, Head(labeled_data).user_id),
                           Tail(labeled_data))

\* The retrievers over a catalog of MaxCatalog rows, with or without a
\* semantic retriever, profiles built from one interaction of u1, and the
\* classifier as constructed or fitted.
ServeInit ==
    /\ SchemaInit
    /\ labeled_pairs # <<>>
    /\ query_signals.tokens = {"japanese", "dinner"}

\* Rows handed to build_feature_rows: either user, the first item of the
\* catalog or an item it does not have.
ServeRows ==
    [query_id : {"q1"}, user_id : Users, item_id : {0, catalog[1].item_id},
     relevance : RowRelevances]

\* A call returns r and leaves the profiles p; nothing else is written.
Served(name, a, r, p) ==
    /\ op' = name
    /\ arg' = a
    /\ outcome' = r.exc
    /\ result' = r.val
    /\ profiles' = p
    /\ UNCHANGED <<catalog, lex_scores, semantic, sem_scores, semantic_weight,
                   query_text, query_signals, labeled_pairs>>
    /\ UNCHANGED <<spellVars, rankVars, pipeVars, intentVars, taskVars>>

ServeQuery ==
    \E top_k \in 1..MaxTopK : \E top_indices \in TopIndices(lex_scores, top_k) :
        Served("query", top_k, Returned(LexicalQuery(top_indices)), profiles)

ServeRetrieve ==
    \E top_k \in 1..MaxTopK :
    \E tops \in TopIndices(lex_scores, top_k * 2)
                 \X (IF semantic = "None" THEN {<<>>}
                     ELSE TopIndices(sem_scores, top_k * 2)) :
        Served("retrieve", top_k, Retrieve(tops[1], tops[2], top_k), profiles)

ServePairScores ==
    \E item_id \in AskedIds :
        Served("pair_scores", item_id, PairScores(item_id), profiles)

ServeScore ==
    \E user_id \in Users : \E i \in 1..Len(Cuisines) :
        Served("score", <<user_id, Cuisines[i]>>,
               Returned(Score(user_id, Cuisines[i])),
               ProfilesAfterScore(profiles, user_id))

ServePredict ==
    \E queries \in 0..MaxQueries : \E r \in IntentPredict(IntentState, queries) :
        Served("intent_predict", queries, r, profiles)

ServeBuildFeatureRows ==
    \E labeled_data \in SeqsUpTo(ServeRows, MaxRows) :
        LET r == BuildFeatureRows(labeled_data, <<>>)
        IN  Served("build_feature_rows", labeled_data, r,
                   IF r.exc = "none" THEN ProfilesAfterRows(profiles, labeled_data)
                   ELSE profiles)

\* build_matrices over the rows build_feature_rows has just returned.
ServeBuildMatrices ==
    /\ op = "build_feature_rows"
    /\ outcome = "none"
    /\ Served("build_matrices", result, Returned(build_matrices(result)), profiles)

\* evaluate_predictions over the rows build_matrices has just returned and a
\* prediction for each.
ServeEvaluate ==
    /\ op = "build_matrices"
    /\ \E preds \in [1..Len(result.rows) -> {0, 1}] :
        Served("evaluate_predictions", <<result.rows, preds, MaxK>>,
               Returned(evaluate_predictions(result.rows, preds, MaxK)), profiles)

ServeNext ==
    \/ ServeQuery
    \/ ServeRetrieve
    \/ ServePairScores
    \/ ServeScore
    \/ ServePredict
    \/ ServeBuildFeatureRows
    \/ ServeBuildMatrices
    \/ ServeEvaluate

SpecServe == ServeInit /\ [][ServeNext]_vars

(***************************************************************************)
(* task CLI: models.py, storage.py, display.py and the commands add, done  *)
(* and list.  A title is a sequence of characters; the other strings are   *)
(* atoms, converted by tables.  A datetime is <<year, month, day, hour,    *)
(* minute>>.  tasks.json is [exists, tasks], tasks being its "tasks" array.*)
(***************************************************************************)
MaxTasks == 2

\* The exit code of a rejected command (task.constants).
EXIT_INVALID_INPUT == 2

\* models.py: the members of Priority and their values.
PriorityMembers == {"LOW", "MEDIUM", "HIGH"}

PriorityValue(member) ==
    CASE member = "LOW" -> "low"
      [] member = "MEDIUM" -> "medium"
      [] member = "HIGH" -> "high"

\* Priority(value): the member with that value, or ValueError.
Priority(value) ==
    IF \E m \in PriorityMembers : PriorityValue(m) = value
    THEN Returned(CHOOSE m \in PriorityMembers : PriorityValue(m) = value)
    ELSE Raised("ValueError")

\* str.lower() of the priority strings given on the command line.
LowerText(s) ==
    CASE s = "HIGH" -> "high"
      [] s = "Low" -> "low"
      [] OTHER -> s

\* datetime.now() when a Task is constructed, and the due date given.
Now == <<2025, 1, 15, 10, 30>>

DueDay == <<2025, 12, 31, 0, 0>>

Datetimes == {Now, DueDay}

\* datetime.strptime(s, "%Y-%m-%d")
Strptime(s) ==
    IF s = "2025-12-31" THEN Returned(DueDay) ELSE Raised("ValueError")

\* datetime.isoformat() and datetime.fromisoformat()
Isoformat(dt) ==
    IF dt = Now THEN "2025-01-15T10:30:00" ELSE "2025-12-31T00:00:00"

Fromisoformat(s) == CHOOSE dt \in Datetimes : Isoformat(dt) = s

\* JSON null.
JsonNull == "null"

\* Task(title=..., priority=..., due_date=...): done and created_at default.
Task(title, priority, due_date) ==
    [title |-> title,
     done |-> FALSE,
     priority |-> priority,
     created_at |-> Now,
     due_date |-> due_date]

ensure_storage_exists(file) ==
    IF file.exists THEN file ELSE [exists |-> TRUE, tasks |-> <<>>]

task_to_dict(task) ==
    [title |-> task.title,
     done |-> task.done,
     priority |-> PriorityValue(task.priority),
     created_at |-> Isoformat(task.created_at),
     due_date |-> IF task.due_date # PyNone
                  THEN Isoformat(task.due_date) ELSE JsonNull]

dict_to_task(data) ==
    [title |-> data.title,
     done |-> data.done,
     priority |-> Priority(data.priority).val,
     created_at |-> Fromisoformat(data.created_at),
     due_date |-> IF data.due_date # JsonNull
                  THEN Fromisoformat(data.due_date) ELSE PyNone]

\* load_tasks: the list of Task read from the file once it exists.
load_tasks(file) ==
    LET data == ensure_storage_exists(file).tasks
    IN  [i \in 1..Len(data) |-> dict_to_task(data[i])]

\* save_tasks(tasks): the file it leaves.
save_tasks(tasks) ==
    [exists |-> TRUE, tasks |-> [i \in 1..Len(tasks) |-> task_to_dict(tasks[i])]]

\* add_task that puts the new task first.
AddTaskFirst(file, task) == save_tasks(<<task>> \o load_tasks(file))

add_task(file, task) == save_tasks(Append(load_tasks(file), task))

\* The stored positions get_tasks keeps: the done filter, then the priority
\* filter, each applied when it is not None.
KeptPositions(tasks, done_filter, priority_filter) ==
    LET DoneTest(i) == tasks[i].done = done_filter[1]
        byDone == IF done_filter # PyNone
                  THEN SelectSeq([i \in 1..Len(tasks) |-> i], DoneTest)
                  ELSE [i \in 1..Len(tasks) |-> i]
        PriorityTest(i) == tasks[i].priority = priority_filter[1]
    IN  IF priority_filter # PyNone THEN SelectSeq(byDone, PriorityTest) ELSE byDone

get_tasks(file, done_filter, priority_filter) ==
    LET tasks == load_tasks(file)
        kept == KeptPositions(tasks, done_filter, priority_filter)
    IN  [i \in 1..Len(kept) |-> tasks[kept[i]]]

\* display.table(tasks): one row per task, numbered from 1.
table(tasks) ==
    [idx \in 1..Len(tasks) |->
        [number |-> idx,
         title |-> tasks[idx].title,
         priority |-> PriorityValue(tasks[idx].priority),
         due |-> tasks[idx].due_date,
         status |-> tasks[idx].done]]

\* `if x:` for an optional string.
Truthy(x) == x # PyNone /\ x # Some("")

\* commands/add.py up to the construction of the Task: the Task, or the exit
\* the validation raises.
add_validate(title, priority, due) ==
    IF Strip(title) = <<>>
    THEN Raised("Exit")
    ELSE LET task_priority == Priority(LowerText(priority))
         IN  IF task_priority.exc # "none"
             THEN Raised("Exit")
             ELSE LET due_date == IF Truthy(due) THEN Strptime(due[1])
                                  ELSE Returned(PyNone)
                  IN  IF due_date.exc # "none"
                      THEN Raised("Exit")
                      ELSE Returned(Task(Strip(title), task_priority.val,
                                         due_date.val))

\* commands/add.py: the exit code and the file the command leaves.
task_add(file, title, priority, due) ==
    LET task == add_validate(title, priority, due)
    IN  IF task.exc # "none"
        THEN [exit_code |-> EXIT_INVALID_INPUT, file |-> file]
        ELSE [exit_code |-> 0, file |-> add_task(file, task.val)]

\* done that does not check the upper end of the ids.
TaskDoneNoUpper(file, task_id) ==
    LET tasks == load_tasks(file)
        n == IF task_id > Len(tasks) THEN Len(tasks) ELSE task_id
    IN  IF task_id < 1 \/ tasks = <<>>
        THEN [exit_code |-> EXIT_INVALID_INPUT, file |-> ensure_storage_exists(file)]
        ELSE [exit_code |-> 0,
              file |-> save_tasks([tasks EXCEPT ![n].done = TRUE])]

\* done that toggles the flag.
TaskDoneToggle(file, task_id) ==
    LET tasks == load_tasks(file)
    IN  IF task_id < 1 \/ task_id > Len(tasks)
        THEN [exit_code |-> EXIT_INVALID_INPUT, file |-> ensure_storage_exists(file)]
        ELSE [exit_code |-> 0,
              file |-> save_tasks([tasks EXCEPT ![task_id].done = ~tasks[task_id].done])]

\* commands/done.py
task_done(file, task_id) ==
    LET tasks == load_tasks(file)
    IN  IF task_id < 1
        THEN [exit_code |-> EXIT_INVALID_INPUT, file |-> ensure_storage_exists(file)]
        ELSE IF task_id > Len(tasks)
        THEN [exit_code |-> EXIT_INVALID_INPUT, file |-> ensure_storage_exists(file)]
        ELSE [exit_code |-> 0,
              file |-> save_tasks([tasks EXCEPT ![task_id].done = TRUE])]

\* commands/list.py: the exit code, the file it leaves and the rows printed.
task_list(file, all_tasks, done_flag, priority) ==
    LET parsed == IF Truthy(priority) THEN Priority(LowerText(priority[1]))
                  ELSE Returned("LOW")
        priority_filter == IF Truthy(priority) THEN Some(parsed.val) ELSE PyNone
        done_filter == IF done_flag THEN Some(TRUE)
                       ELSE IF ~all_tasks THEN Some(FALSE) ELSE PyNone
        tasks == get_tasks(file, done_filter, priority_filter)
    IN  IF parsed.exc # "none"
        THEN [exit_code |-> EXIT_INVALID_INPUT, file |-> file, rows |-> <<>>]
        ELSE [exit_code |-> 0,
              file |-> ensure_storage_exists(file),
              rows |-> IF tasks = <<>> THEN <<>> ELSE table(tasks)]

\* The file as the variables hold it.
File == [exists |-> storage_exists, tasks |-> storage_tasks]

\* The command lines run.
AddInputs ==
    {[title |-> <<" ", "a", " ">>, priority |-> "low", due |-> PyNone],
     [title |-> <<"b">>, priority |-> "low", due |-> PyNone],
     [title |-> <<"b">>, priority |-> "HIGH", due |-> Some("2025-12-31")]}
    \cup [title : {<<>>, <<" ">>}, priority : {"low"}, due : {PyNone}]
    \cup [title : {<<"b">>}, priority : {"urgent"}, due : {PyNone}]
    \cup [title : {<<"b">>}, priority : {"low"},
          due : {Some(""), Some("12/31/2025"), Some("2025-13-01")}]

DoneInputs == (0 - 1)..(MaxTasks + 1)

ListInputs ==
    [all_tasks : BOOLEAN, done : BOOLEAN,
     priority : {PyNone, Some("high"), Some("urgent")}]

TasksInit ==
    /\ SpellIdle
    /\ IndexIdle
    /\ CallIdle
    /\ RankerIdle
    /\ PipelineIdle
    /\ IntentIdle
    /\ TaskIdle

\* What every command leaves besides its own result.
Ran(line, r) ==
    /\ cmd' = line
    /\ exit_code' = r.exit_code
    /\ storage_exists' = r.file.exists
    /\ storage_tasks' = r.file.tasks
    /\ previous' = storage_tasks
    /\ UNCHANGED <<spellVars, indexVars, callVars, rankVars, pipeVars, intentVars,
                   proc_pc, proc_cmd, proc_tasks>>

AddCommand ==
    \E input \in AddInputs :
        LET r == task_add(File, input.title, input.priority, input.due)
        IN  /\ r.exit_code = 0 => Len(storage_tasks) < MaxTasks
            /\ Ran([NoCmd EXCEPT !.name = "add", !.title = input.title,
                                 !.priority = input.priority, !.due = input.due], r)
            /\ shown' = <<>>

DoneCommand ==
    \E task_id \in DoneInputs :
        /\ Ran([NoCmd EXCEPT !.name = "done", !.task_id = task_id],
               task_done(File, task_id))
        /\ shown' = <<>>

ListCommand ==
    \E input \in ListInputs :
        LET r == task_list(File, input.all_tasks, input.done, input.priority)
        IN  /\ Ran([NoCmd EXCEPT !.name = "list", !.all_tasks = input.all_tasks,
                                 !.done = input.done,
                                 !.priority_filter = input.priority], r)
            /\ shown' = r.rows

TasksNext == AddCommand \/ DoneCommand \/ ListCommand

SpecTasks == TasksInit /\ [][TasksNext]_vars

(***************************************************************************)
(* Two task commands run at the same time as separate processes on the     *)
(* same tasks.json.  A process reads the file in load_tasks and writes it  *)
(* in save_tasks; nothing locks the file in between, so the steps of the   *)
(* two processes interleave freely.  Each read and each write is taken as  *)
(* one step.                                                               *)
(***************************************************************************)
\* The dicts add and done can have left in the file.
StoredDicts ==
    {task_to_dict([t EXCEPT !.done = flag]) :
        t \in {add_validate(i.title, i.priority, i.due).val :
                  i \in {j \in AddInputs :
                            add_validate(j.title, j.priority, j.due).exc = "none"}},
        flag \in BOOLEAN}

\* The command lines of the two processes: an add that passes validation for
\* the first, such an add or a done for the second.
AddLines ==
    {[NoCmd EXCEPT !.name = "add", !.title = i.title, !.priority = i.priority,
                   !.due = i.due] :
        i \in {j \in AddInputs : add_validate(j.title, j.priority, j.due).exc = "none"}}

DoneLines == {[NoCmd EXCEPT !.name = "done", !.task_id = n] : n \in DoneInputs}

ConcurrentInit ==
    /\ SpellIdle
    /\ IndexIdle
    /\ CallIdle
    /\ RankerIdle
    /\ PipelineIdle
    /\ IntentIdle
    /\ cmd = NoCmd
    /\ exit_code = 0
    /\ shown = <<>>
    /\ storage_exists \in BOOLEAN
    /\ storage_tasks \in SeqsUpTo(StoredDicts, MaxTasks - 1)
    /\ ~storage_exists => storage_tasks = <<>>
    /\ previous = storage_tasks
    /\ proc_pc = [p \in Procs |-> "start"]
    /\ proc_cmd \in [Procs -> AddLines \cup DoneLines]
    /\ proc_cmd[1] \in AddLines
    /\ proc_tasks = [p \in Procs |-> <<>>]

\* The list a command holds after load_tasks and its change to it:
\* add_task's tasks.append(task), done's task.done = True.
Modified(line, tasks) ==
    IF line.name = "add"
    THEN Append(tasks, add_validate(line.title, line.priority, line.due).val)
    ELSE [tasks EXCEPT ![line.task_id].done = TRUE]

\* A process runs its command up to and including load_tasks and the change
\* of its own copy of the list; done exits here when the id is invalid.
ProcLoad(p) ==
    /\ proc_pc[p] = "start"
    /\ LET line == proc_cmd[p]
           tasks == load_tasks(File)
           rejected == line.name = "done"
                       /\ (line.task_id < 1 \/ line.task_id > Len(tasks))
       IN  /\ storage_exists' = ensure_storage_exists(File).exists
           /\ storage_tasks' = ensure_storage_exists(File).tasks
           /\ proc_pc' = [proc_pc EXCEPT ![p] = IF rejected THEN "exit2" ELSE "loaded"]
           /\ proc_tasks' = [proc_tasks EXCEPT
                                ![p] = IF rejected THEN tasks ELSE Modified(line, tasks)]
    /\ UNCHANGED <<spellVars, indexVars, callVars, rankVars, pipeVars, intentVars,
                   cmd, exit_code, shown, previous, proc_cmd>>

\* The process writes its copy of the list with save_tasks and exits.
ProcSave(p) ==
    /\ proc_pc[p] = "loaded"
    /\ storage_exists' = save_tasks(proc_tasks[p]).exists
    /\ storage_tasks' = save_tasks(proc_tasks[p]).tasks
    /\ proc_pc' = [proc_pc EXCEPT ![p] = "exit0"]
    /\ UNCHANGED <<spellVars, indexVars, callVars, rankVars, pipeVars, intentVars,
                   cmd, exit_code, shown, previous, proc_cmd, proc_tasks>>

ConcurrentNext == \E p \in Procs : ProcLoad(p) \/ ProcSave(p)

SpecConcurrent == ConcurrentInit /\ [][ConcurrentNext]_vars

(***************************************************************************)
(* Properties of search/retrieval.py, checked under SpecRetrieval          *)
(***************************************************************************)
\* C1: every score in the list HybridRetriever.retrieve returns lies in
\* [0, 1 + semantic_weight], and the scores do not increase from the first
\* returned item to the last.
C1_ScoresInRangeAndSorted ==
    (op = "retrieve" /\ outcome = "none") =>
        /\ \A i \in 1..Len(result) :
              LET num == result[i].score[1]
                  den == result[i].score[2]
              IN  /\ den > 0
                  /\ 0 <= num
                  /\ num * semantic_weight[2]
                        <= den * (semantic_weight[2] + semantic_weight[1])
        /\ \A i \in 1..(Len(result) - 1) :
              result[i].score[1] * result[i + 1].score[2]
                 >= result[i + 1].score[1] * result[i].score[2]

\* C1 witness: with a semantic retriever and a positive weight, retrieve
\* returned two items of different scores, the first above 1.
C1_Witness ==
    /\ op = "retrieve"
    /\ outcome = "none"
    /\ semantic # "None"
    /\ semantic_weight[1] > 0
    /\ Len(result) >= 2
    /\ result[1].score[1] > result[1].score[2]
    /\ result[1].score[1] > result[2].score[1]
    /\ result[2].score[1] > 0

\* Row index of a returned item.
IdxOf(item) == id_to_idx[item.item_id]

ReturnedIdx == {IdxOf(result[i]) : i \in 1..Len(result)}

\* C2 as amended: query returns min(top_k, catalog size) distinct items, each
\* with its own similarity, in descending score order, and no item left out
\* scores higher than an item returned.
C2_TopKDescending ==
    op = "query" =>
        /\ outcome = "none"
        /\ Len(result) = MinOf(arg, Len(catalog))
        /\ Cardinality(ReturnedIdx) = Len(result)
        /\ \A i \in 1..Len(result) :
              /\ result[i].score = lex_scores[IdxOf(result[i])]
              /\ result[i].source = "lexical"
        /\ \A i, j \in 1..Len(result) : i < j => result[i].score >= result[j].score
        /\ \A idx \in (1..Len(catalog)) \ ReturnedIdx : \A i \in 1..Len(result) :
              lex_scores[idx] <= result[i].score

\* C2 as claimed: as above, and of two items of equal score the one earlier in
\* the catalog comes first, and is the one kept at the top_k cut-off.
C2_TiesInCatalogOrder ==
    op = "query" =>
        /\ C2_TopKDescending
        /\ \A i, j \in 1..Len(result) :
              (i < j /\ result[i].score = result[j].score) =>
                  IdxOf(result[i]) < IdxOf(result[j])
        /\ \A idx \in (1..Len(catalog)) \ ReturnedIdx : \A i \in 1..Len(result) :
              lex_scores[idx] = result[i].score => IdxOf(result[i]) < idx

\* C2 witness: query cut a catalog of three rows down to two, and the two it
\* returned tie with the later row of the catalog first.
C2_Witness ==
    /\ op = "query"
    /\ Len(catalog) = 3
    /\ Len(result) = 2
    /\ result[1].score = result[2].score
    /\ IdxOf(result[1]) > IdxOf(result[2])
    /\ \E idx \in (1..Len(catalog)) \ ReturnedIdx : lex_scores[idx] < result[2].score

(***************************************************************************)
(* Properties of feature building, checked under SpecFeatures              *)
(***************************************************************************)
\* C3 as claimed: with no semantic retriever, pair_scores returns 0.0 as the
\* semantic score and every FeatureRow has features['semantic_score'] = 0.0.
C3_SemanticScoreZero ==
    semantic = "None" =>
        /\ (op = "pair_scores" /\ outcome = "none") => result[2] = 0
        /\ (op = "build_feature_rows" /\ outcome = "none") =>
              \A i \in 1..Len(result) : result[i].features.semantic_score = 0

\* C3 as amended: with no semantic retriever, pair_scores returns 0.0 as the
\* semantic score, and build_feature_rows puts the lexical score of the pair
\* in its place: features['semantic_score'] = features['lexical_score'].
C3_SemanticScoreIsLexical ==
    semantic = "None" =>
        /\ (op = "pair_scores" /\ outcome = "none") => result[2] = 0
        /\ (op = "build_feature_rows" /\ outcome = "none") =>
              \A i \in 1..Len(result) :
                 /\ result[i].features.lexical_score = lex_scores[IdxOf(result[i])]
                 /\ result[i].features.semantic_score
                       = result[i].features.lexical_score

\* C3 witness: with no semantic retriever, build_feature_rows built two rows
\* and one of them carries a positive semantic_score.
C3_Witness ==
    /\ semantic = "None"
    /\ op = "build_feature_rows"
    /\ outcome = "none"
    /\ Len(result) = 2
    /\ result[1].features.semantic_score > 0
    /\ result[1].features.semantic_score = result[1].features.lexical_score

\* C4: a lookup with a user_id, cuisine or item_id that the profiles or the
\* catalog do not have never raises and yields the neutral default.
C4_UnknownEntityNeverRaises ==
    /\ op = "score" =>
          /\ outcome = "none"
          /\ (arg[1] \notin DOMAIN profiles => result = <<0, 1>>)
          /\ (arg[1] \in DOMAIN profiles /\ arg[2] \notin DOMAIN profiles[arg[1]]
                => result = <<0, 1>>)
    /\ op = "pair_scores" =>
          /\ outcome = "none"
          /\ (arg \notin DOMAIN id_to_idx => result = <<0, 0>>)
    /\ op = "build_feature_rows" => outcome = "none"

(***************************************************************************)
(* Properties of train_pipeline, checked under SpecPipeline                *)
(***************************************************************************)
\* C5: when semantic retrieval is asked for and the embedding model cannot be
\* loaded, train_pipeline does not end with the exception: it goes on with a
\* HybridRetriever that has no semantic retriever.
C5_CapabilityGapNotFatal ==
    (enable_semantic /\ ~has_sentence_transformers) =>
        /\ pc # "raised"
        /\ outcome = "none"
        /\ pc \notin {"start", "loaded", "intent_classifier", "spell_corrector",
                      "lexical"} => semantic = "None"

(***************************************************************************)
(* Properties of the Ranker, checked under SpecRanker                      *)
(***************************************************************************)
\* C6: in both variants, a fit with len(X) # len(y) or sum(group) # len(X)
\* fails with an error instead of training.
C6_FitRejectsMalformedInput ==
    (op = "fit" /\ (arg.y # arg.X.rows \/ Sum(arg.group) # arg.X.rows)) =>
        outcome # "none"

\* C7 as claimed: predict on a well-formed matrix never fails, whatever calls
\* the Ranker has seen since it was constructed.
C7_PredictNeverFails ==
    (op = "predict" /\ WellFormed(arg.X)) => outcome = "none"

\* C7 as amended: predict on a well-formed matrix returns one prediction per
\* row when the last fit that returned was given a matrix of
\* len(FEATURE_COLUMNS) columns; it raises NotFittedError when no fit has
\* returned yet, and ValueError when the last one was given another width.
C7_PredictAfterFit ==
    (op = "predict" /\ WellFormed(arg.X)) =>
        /\ last_fit_cols = Len(FEATURE_COLUMNS) =>
              /\ outcome = "none"
              /\ Len(result) = arg.X.rows
        /\ last_fit_cols = 0 => outcome = "NotFittedError"
        /\ last_fit_cols \notin {0, Len(FEATURE_COLUMNS)} => outcome = "ValueError"

\* C7 witness: after a fit on a well-formed matrix returned, predict gave a
\* prediction for each of the two rows of a well-formed matrix.
C7_Witness ==
    /\ op = "predict"
    /\ WellFormed(arg.X)
    /\ arg.X.rows = 2
    /\ last_fit_cols = Len(FEATURE_COLUMNS)
    /\ outcome = "none"
    /\ Len(result) = 2

(***************************************************************************)
(* Properties of search/spell.py, checked under SpecSpell                  *)
(***************************************************************************)
TokChars == {"a", "b"}

\* The strings of at most n characters that are one insertion, deletion or
\* substitution away from s.
Edits1(s, n) ==
    {SubSeq(s, 1, i - 1) \o SubSeq(s, i + 1, Len(s)) : i \in 1..Len(s)}
    \cup (IF Len(s) < n
          THEN {SubSeq(s, 1, i) \o <<c>> \o SubSeq(s, i + 1, Len(s)) :
                   i \in 0..Len(s), c \in TokChars}
          ELSE {})
    \cup {[s EXCEPT ![i[1]] = i[2]] : i \in (1..Len(s)) \X TokChars}

\* The number of rounds of single edits after which b is first reached from
\* the strings in B.  A shortest edit script can delete and substitute before
\* it inserts, so it needs no string longer than the longer of its two ends.
RECURSIVE EditRounds(_, _, _, _)
EditRounds(B, b, n, d) ==
    IF b \in B THEN d
    ELSE EditRounds(B \cup UNION {Edits1(t, n) : t \in B}, b, n, d + 1)

\* The least number of unit-cost edits turning a into b.
EditDistance(a, b) ==
    EditRounds({a}, b, IF Len(a) > Len(b) THEN Len(a) ELSE Len(b), 0)

\* <<the least edit distance from token to a vocabulary token, the first
\* vocabulary token, in iteration order, at that distance>>
Nearest(token) ==
    LET D == [j \in 1..Len(vocab) |-> EditDistance(token, vocab[j])]
        dmin == CHOOSE d \in Range(D) : \A j \in 1..Len(vocab) : d <= D[j]
        first == CHOOSE j \in 1..Len(vocab) :
                    D[j] = dmin /\ \A k \in 1..(j - 1) : D[k] > dmin
    IN  <<dmin, vocab[first], Cardinality({j \in 1..Len(vocab) : D[j] = dmin})>>

\* C8: every out-of-vocabulary token of the query (vocabulary non-empty) comes
\* out as the vocabulary token of least Levenshtein distance, the first such in
\* the vocabulary's iteration order, when that distance is at most
\* max_edit_distance, and as itself otherwise; a replacement is never farther
\* than max_edit_distance from the token it replaces.
C8_NearestWithinMaxEditDistance ==
    (spell_call = "returned" /\ vocab # <<>>) =>
        LET toks == Split(query)
            out == Split(corrected)
        IN  /\ Len(out) = Len(toks)
            /\ \A i \in 1..Len(toks) :
                  toks[i] \notin Range(vocab) =>
                      LET near == Nearest(toks[i])
                      IN  /\ out[i] = IF near[1] <= max_edit_distance
                                      THEN near[2]
                                      ELSE toks[i]
                          /\ out[i] # toks[i] =>
                                EditDistance(toks[i], out[i]) <= max_edit_distance

\* C8 witness: an out-of-vocabulary token with two equally near candidates was
\* replaced by the one that iterates first.
C8_Witness ==
    /\ spell_call = "returned"
    /\ Len(vocab) >= 2
    /\ \E i \in 1..Len(Split(query)) :
          LET t == Split(query)[i]
          IN  /\ t \notin Range(vocab)
              /\ Nearest(t)[3] >= 2
              /\ Split(corrected)[i] = Nearest(t)[2]
              /\ Split(corrected)[i] # t

\* C8, the other branch reached: a token farther than max_edit_distance from
\* every vocabulary token was kept.
C8_WitnessKept ==
    /\ spell_call = "returned"
    /\ vocab # <<>>
    /\ max_edit_distance >= 1
    /\ \E i \in 1..Len(Split(query)) :
          LET t == Split(query)[i]
          IN  /\ t \notin Range(vocab)
              /\ Nearest(t)[1] > max_edit_distance
              /\ Split(corrected)[i] = t

\* C9: a token that is in the vocabulary, and any token when the vocabulary is
\* empty, comes out of correct() unchanged, whatever max_edit_distance is.
C9_VocabTokensUnchanged ==
    spell_call # "none" =>
        LET toks == Split(query)
            out == Split(corrected)
        IN  \A i \in 1..Len(toks) :
                (toks[i] \in Range(vocab) \/ vocab = <<>>) =>
                    /\ spell_call = "returned"
                    /\ Len(out) = Len(toks)
                    /\ out[i] = toks[i]

\* C9 witness: one query held a vocabulary token, which was kept, and an
\* out-of-vocabulary token, which was replaced.
C9_Witness ==
    /\ spell_call = "returned"
    /\ \E i, j \in 1..Len(Split(query)) :
          /\ Split(query)[i] \in Range(vocab)
          /\ Split(corrected)[i] = Split(query)[i]
          /\ Split(query)[j] \notin Range(vocab)
          /\ Split(corrected)[j] # Split(query)[j]

\* C10 as claimed: an empty vocabulary is rejected, by the constructor or at
\* the latest by the first correct() call.
C10_EmptyVocabRejected ==
    (vocab = <<>> /\ spell_call # "none") =>
        (spell_init # "ok" \/ spell_call = "ValueError")

\* C10 as amended: an empty vocabulary is accepted; the constructor succeeds
\* and every later correct() call returns instead of raising.
C10_EmptyVocabAccepted ==
    vocab = <<>> => (spell_init = "ok" /\ spell_call \in {"none", "returned"})

\* C10 witness: a corrector with an empty vocabulary answered a query of two
\* tokens with those tokens.
C10_Witness ==
    /\ vocab = <<>>
    /\ spell_init = "ok"
    /\ spell_call = "returned"
    /\ Len(Split(query)) = 2
    /\ corrected = Join(Split(query))

(***************************************************************************)
(* Properties of normalize_query, checked under SpecNormalize              *)
(***************************************************************************)
\* C11: what normalize_query returns holds only lowercase letters, digits and
\* single spaces, with no space at either end, and normalize_query applied to
\* it returns it unchanged.
C11_NormalizeIdempotent ==
    (op \in {"normalize_query", "normalize_query_again"}) =>
        /\ \A i \in 1..Len(result) : IsLowerAlnum(result[i]) \/ result[i] = " "
        /\ \A i \in 1..(Len(result) - 1) : ~(result[i] = " " /\ result[i + 1] = " ")
        /\ result # <<>> => (result[1] # " " /\ result[Len(result)] # " ")
        /\ normalize_query(result) = result
        /\ op = "normalize_query_again" => result = arg

\* C11 witness: a text of an uppercase letter, punctuation and whitespace was
\* normalized to two words, and normalizing those again gave them back.
C11_Witness ==
    /\ op = "normalize_query_again"
    /\ arg = <<"b", " ", "a">>
    /\ result = arg

(***************************************************************************)
(* Properties of the IntentClassifier, checked under SpecIntent            *)
(***************************************************************************)
\* C12: a predict before any fit has returned gives "product_search" for each
\* query and raises nothing; a predict after a fit has returned gives, when it
\* returns, one label per query out of those the fit learned, not the default.
C12_FallbackOnlyBeforeFit ==
    op = "intent_predict" =>
        /\ ~fit_returned =>
              /\ outcome = "none"
              /\ result = [i \in 1..arg |-> "product_search"]
        /\ fit_returned =>
              /\ is_fitted
              /\ arg = 0 => outcome # "none"
              /\ outcome = "none" =>
                    /\ Len(result) = arg
                    /\ \A i \in 1..arg : result[i] \in clf_classes

\* C12 witness: after a fit on two labels without "product_search", predict
\* returned a learned label for each of two queries.
C12_Witness ==
    /\ op = "intent_predict"
    /\ fit_returned
    /\ "product_search" \notin clf_classes
    /\ arg = 2
    /\ outcome = "none"
    /\ Len(result) = 2

\* C12 witness of the first half: before any fit returned, and after one that
\* raised, predict returned the default for each of two queries.
C12_WitnessBeforeFit ==
    /\ op = "intent_predict"
    /\ ~fit_returned
    /\ arg = 2
    /\ result = <<"product_search", "product_search">>

(***************************************************************************)
(* Properties of UserProfiles, checked under SpecProfiles                  *)
(***************************************************************************)
\* Sum of two quotients <<numerator, denominator>>.
RatAdd(a, b) == <<a[1] * b[2] + b[1] * a[2], a[2] * b[2]>>

\* score(user, c) summed over the cuisines.
RECURSIVE SumScoresFrom(_, _)
SumScoresFrom(user, i) ==
    IF i > Len(Cuisines) THEN <<0, 1>>
    ELSE RatAdd(Score(user, Cuisines[i]), SumScoresFrom(user, i + 1))

SumScores(user) == SumScoresFrom(user, 1)

\* Users with an interaction at all, and the relevance the interactions with
\* catalog items give a user.
UsersSeen == {labeled_pairs[i].user_id : i \in 1..Len(labeled_pairs)}

TotalRelevance(user) == SumUser(MergedRows(labeled_pairs), user)

\* Every score is a quotient in [0, 1], and 0.0 for a user without interactions.
ScoresInUnitRange ==
    \A u \in Users : \A i \in 1..Len(Cuisines) :
        LET s == Score(u, Cuisines[i])
        IN  /\ s[2] > 0
            /\ 0 <= s[1]
            /\ s[1] <= s[2]
            /\ u \notin UsersSeen => s = <<0, 1>>

FirstIdx(rows, q) ==
    CHOOSE i \in 1..Len(rows) :
        /\ rows[i].query_id = q
        /\ \A j \in 1..(i - 1) : rows[j].query_id # q

RowsOf(rows, q) == {i \in 1..Len(rows) : rows[i].query_id = q}

\* C14: X has a row per FeatureRow, row i holding the features of rows[i] in
\* FEATURE_COLUMNS order, y has the labels, and group has one size per distinct
\* query_id, in order of first appearance, the sizes summing to len(rows).
C14_MatricesMatchRows ==
    op = "build_matrices" =>
        LET rows == arg
            ids == {rows[i].query_id : i \in 1..Len(rows)}
            Rank(q) == Cardinality({r \in ids : FirstIdx(rows, r) <= FirstIdx(rows, q)})
        IN  /\ Len(result.X) = Len(rows)
            /\ \A i \in 1..Len(rows) :
                  /\ Len(result.X[i]) = Len(FEATURE_COLUMNS)
                  /\ \A j \in 1..Len(FEATURE_COLUMNS) :
                        result.X[i][j] = rows[i].features[FEATURE_COLUMNS[j]]
            /\ Len(result.y) = Len(rows)
            /\ \A i \in 1..Len(rows) : result.y[i] = rows[i].label
            /\ Len(result.group) = Cardinality(ids)
            /\ \A q \in ids : result.group[Rank(q)] = Cardinality(RowsOf(rows, q))
            /\ Sum(result.group) = Len(rows)
            /\ result.rows = rows

\* C14 witness: three rows with query_ids q2, q1, q2 gave the sizes 2 for q2
\* and 1 for q1, in that order.
C14_Witness ==
    /\ op = "build_matrices"
    /\ Len(arg) = 3
    /\ arg[1].query_id = "q2"
    /\ arg[2].query_id = "q1"
    /\ arg[3].query_id = "q2"
    /\ arg[1].features # arg[3].features
    /\ result.group = <<2, 1>>
    /\ Len(result.X) = 3

\* The columns whose values are quotients <<numerator, denominator>>.
QuotientColumns == {"user_pref_score", "price_affinity", "user_item_bias"}

IsNumber(features, col) ==
    IF col \in QuotientColumns
    THEN features[col] \in Int \X (Nat \ {0})
    ELSE features[col] \in Int

\* C15: every FeatureRow build_feature_rows returns has exactly the keys of
\* FEATURE_COLUMNS, in that order, and a number for each of them, whichever
\* optional signal was there.
C15_FeatureSchema ==
    (op = "build_feature_rows" /\ outcome = "none") =>
        \A i \in 1..Len(result) :
            /\ result[i].feature_keys = FEATURE_COLUMNS
            /\ DOMAIN result[i].features = Range(FEATURE_COLUMNS)
            /\ \A col \in Range(FEATURE_COLUMNS) : IsNumber(result[i].features, col)

\* A row of a user the profiles do not know, for the item without ontology
\* attributes, with no semantic retriever and an intent outside INTENT_MAP.
C15_Witness ==
    /\ op = "build_feature_rows"
    /\ outcome = "none"
    /\ semantic = "None"
    /\ query_signals.intent \notin DOMAIN INTENT_MAP
    /\ \E i \in 1..Len(result) :
        /\ result[i].user_id \notin DOMAIN profiles
        /\ DOMAIN catalog[id_to_idx[result[i].item_id]].ontology_attrs = {}

(***************************************************************************)
(* Properties of search/evaluation.py, checked under SpecEvaluation        *)
(***************************************************************************)
IsDescending(rels) == \A i \in 1..(Len(rels) - 1) : rels[i] >= rels[i + 1]

HasPositive(rels) == \E i \in 1..Len(rels) : rels[i] > 0

\* The float is exactly 1.0: a nonzero sum divided by an equal sum.
IsOne(v) == v.divided /\ v.num = v.den /\ v.den # DcgZero

\* The predictions of the group of q order its pairs as the labels do.
ReproducesOrder(pairs, q) ==
    \A i, j \in 1..Len(pairs) :
        (pairs[i].query_id = q /\ pairs[j].query_id = q
            /\ pairs[i].label > pairs[j].label) => pairs[i].pred > pairs[j].pred

GroupHasPositive(pairs, q) ==
    \E i \in 1..Len(pairs) : pairs[i].query_id = q /\ pairs[i].label > 0

\* C16: ndcg_at_k is 1.0 for every list that is already descending and has a
\* positive relevance, for every k >= 1; so in evaluate_predictions a group
\* whose predictions reproduce the order of its labels has NDCG@k 1.0.
C16_DescendingListScoresOne ==
    /\ (op = "ndcg_at_k" /\ IsDescending(arg[1]) /\ HasPositive(arg[1]) /\ arg[2] >= 1)
            => IsOne(result)
    /\ op = "evaluate_predictions" =>
            LET pairs == ZipPairs(arg[1], arg[2])
                keys == QueryKeys(pairs, <<>>)
            IN  \A i \in 1..Len(keys) :
                    (ReproducesOrder(pairs, keys[i]) /\ GroupHasPositive(pairs, keys[i])
                        /\ arg[3] >= 1)
                        => IsOne(result.mean_ndcg.terms[i])

\* ndcg_at_k of a descending list of three different grades, cut at 2.
C16_Witness ==
    /\ op = "ndcg_at_k"
    /\ Len(arg[1]) = 3
    /\ arg[1][1] > arg[1][2]
    /\ arg[1][2] > arg[1][3]
    /\ arg[2] = 2
    /\ IsOne(result)

\* A group of two labels that the predictions order, given in the other order.
C16_WitnessGroup ==
    /\ op = "evaluate_predictions"
    /\ Len(arg[1]) = 2
    /\ Len(arg[2]) = 2
    /\ arg[1][1].query_id = arg[1][2].query_id
    /\ arg[1][1].label < arg[1][2].label
    /\ arg[2][1] < arg[2][2]
    /\ IsOne(result.mean_ndcg.terms[1])

AllZero(rels) == \A i \in 1..Len(rels) : rels[i] = 0

\* C17: ndcg_at_k returns the literal 0.0, without dividing, for an all-zero
\* list of any length, the empty one included, whatever k is, and for any
\* list when k = 0; and it never divides by an ideal DCG of 0.
C17_ZeroIdealGuard ==
    op = "ndcg_at_k" =>
        /\ (AllZero(arg[1]) \/ arg[2] = 0) => result = Literal0
        /\ result.divided => result.den # DcgZero

\* The guard taken for three zeros at cut-off 3.
C17_Witness ==
    /\ op = "ndcg_at_k"
    /\ arg = <<(<<0, 0, 0>>), 3>>
    /\ result = Literal0

\* The guard taken for the empty list, and for a positive list at cut-off 0.
C17_WitnessEmpty ==
    /\ op = "ndcg_at_k"
    /\ arg[1] = <<>>
    /\ result = Literal0

C17_WitnessCutOffZero ==
    /\ op = "ndcg_at_k"
    /\ HasPositive(arg[1])
    /\ arg[2] = 0
    /\ result = Literal0

\* The positions among the first k that hold a positive relevance.
PositiveWithin(rels, k) == {i \in 1..Len(rels) : i <= k /\ rels[i] > 0}

\* C18: mrr_at_k(relevances, k) is 1/r for the first position r, counted
\* from 1, among the first k that holds a relevance > 0, and 0.0 when none of
\* the first k does.
C18_ReciprocalOfFirstHit ==
    (op = "mrr_at_k" /\ arg[2] >= 0) =>
        LET hits == PositiveWithin(arg[1], arg[2])
        IN  IF hits = {}
            THEN result = <<0, 1>>
            ELSE /\ result[1] = 1
                 /\ result[2] \in hits
                 /\ \A i \in hits : result[2] <= i

\* [0, 0, 1] with k = 3 gives 1/3.
C18_Witness ==
    /\ op = "mrr_at_k"
    /\ arg = <<(<<0, 0, 1>>), 3>>
    /\ result = <<1, 3>>

\* The only positive relevance lies beyond k.
C18_WitnessBeyondK ==
    /\ op = "mrr_at_k"
    /\ arg = <<(<<0, 0, 1>>), 2>>
    /\ result = <<0, 1>>

\* The orders of the rows of query_id q in which predictions never increase,
\* as sequences of row numbers.
GroupRows(rows, q) == {i \in 1..Len(rows) : rows[i].query_id = q}

DescendingOrders(rows, preds, q) ==
    {o \in Orders(GroupRows(rows, q)) :
        \A i \in 1..(Len(o) - 1) : preds[o[i]] >= preds[o[i + 1]]}

LabelsAlong(rows, o) == [i \in 1..Len(o) |-> rows[o[i]].label]

FracEq(a, b) == a[1] * b[2] = b[1] * a[2]

\* C19: evaluate_predictions groups the (prediction, label) pairs by query_id,
\* orders each group by prediction descending, and returns the unweighted
\* mean of the per-group NDCG@k and MRR@k over exactly the query_ids that
\* have a row, each group counting once.
C19_UnweightedMeanOverGroups ==
    (op = "evaluate_predictions" /\ Len(arg[1]) = Len(arg[2])) =>
        LET rows == arg[1]
            preds == arg[2]
            k == arg[3]
            ids == {rows[i].query_id : i \in 1..Len(rows)}
        IN  IF ids = {}
            THEN result = [mean_ndcg |-> MeanLiteral0, mean_mrr |-> <<0, 1>>]
            ELSE \E e \in Orders(ids) :
                 \E f \in [ids -> UNION {DescendingOrders(rows, preds, q) : q \in ids}] :
                    /\ \A q \in ids : f[q] \in DescendingOrders(rows, preds, q)
                    /\ result.mean_ndcg.n = Cardinality(ids)
                    /\ result.mean_ndcg.terms =
                            [i \in 1..Len(e) |-> ndcg_at_k(LabelsAlong(rows, f[e[i]]), k)]
                    /\ FracEq(result.mean_mrr,
                              FracMean([i \in 1..Len(e) |->
                                          mrr_at_k(LabelsAlong(rows, f[e[i]]), k)]))

\* Two groups, one of two rows whose predictions put the irrelevant one first
\* and one of a single relevant row: the MRRs 1/2 and 1 average to 3/4.
C19_Witness ==
    /\ op = "evaluate_predictions"
    /\ Len(arg[1]) = 3
    /\ Len(arg[2]) = 3
    /\ Cardinality({arg[1][i].query_id : i \in 1..3}) = 2
    /\ arg[1][1].query_id = arg[1][3].query_id
    /\ arg[1][1].label = 1
    /\ arg[2][1] < arg[2][3]
    /\ result.mean_ndcg.n = 2
    /\ FracEq(result.mean_mrr, <<3, 4>>)

(***************************************************************************)
(* Properties of the TF-IDF similarities, checked under SpecMatch          *)
(***************************************************************************)
\* The row whose text is the query, and the other row.
RowA == CHOOSE i \in 1..2 : catalog[i].text = query_text

RowB == 3 - RowA

PositionOf(idx, items) ==
    {i \in 1..Len(items) : items[i].item_id = catalog[idx].item_id}

\* A is in the list, and before B when B is in it too.
RanksAAboveB(items) ==
    /\ PositionOf(RowA, items) # {}
    /\ \A i \in PositionOf(RowA, items) : \A j \in PositionOf(RowB, items) : i < j

ExactMatchWins ==
    /\ lex_scores[RowB] < lex_scores[RowA]
    /\ op \in {"query", "retrieve"} => RanksAAboveB(result)
    /\ op = "pair_scores" /\ outcome = "none" =>
            result[1] = lex_scores[id_to_idx[arg]]

\* C20 as claimed: whenever A's text is the query and B's is another text, A
\* ranks above B in query and in retrieve, and B's lexical pair score is
\* strictly lower than A's.
C20_ExactMatchRanksFirst == ExactMatchWins

\* The two texts give the vectorizer different counts of 1-grams and 2-grams,
\* and the query has a term.
DistinctTerms ==
    /\ Analyze(query_text) # <<>>
    /\ \E f \in Vocabulary(<<catalog[1].text, catalog[2].text>>) :
            Tf(f, catalog[1].text) # Tf(f, catalog[2].text)

\* C20: when the query has a word of two or more characters and B's text
\* differs from it in the lowercased words or word pairs it counts, A ranks
\* above B in query and in retrieve wherever A is in the catalog, and B's
\* lexical pair score is strictly lower than A's.
C20_DistinctTermsRankFirst == DistinctTerms => ExactMatchWins

\* query returned both rows, A first although it is the later row of the
\* catalog and B shares a term with the query.
C20_Witness ==
    /\ op = "query"
    /\ DistinctTerms
    /\ RowA = 2
    /\ lex_scores[RowB] > 0
    /\ Len(result) = 2
    /\ result[1].item_id = catalog[RowA].item_id

\* The same with A the earlier row, through retrieve.
C20_WitnessRetrieve ==
    /\ op = "retrieve"
    /\ DistinctTerms
    /\ RowA = 1
    /\ lex_scores[RowB] > 0
    /\ Len(result) = 2
    /\ result[1].item_id = catalog[RowA].item_id

(***************************************************************************)
(* Properties of the task CLI, checked under SpecTasks                     *)
(***************************************************************************)
\* The stored list with the done flag of the n-th dict set.
MarkedDone(dicts, n) ==
    [i \in 1..Len(dicts) |->
        IF i = n THEN [dicts[i] EXCEPT !.done = TRUE] ELSE dicts[i]]

\* C21: `done n` with 1 <= n <= number of stored tasks exits with 0 and
\* leaves the stored list as it was except that the n-th task has done=True:
\* same length, same order, every other done flag and every title, priority,
\* due date and created_at unchanged, also when the n-th task was done already.
C21_DoneMarksExactlyTheNth ==
    (cmd.name = "done" /\ 1 <= cmd.task_id /\ cmd.task_id <= Len(previous)) =>
        /\ exit_code = 0
        /\ storage_tasks = MarkedDone(previous, cmd.task_id)

\* `done 2` on a list of two tasks whose second was done already and whose
\* first is pending with a due date and a priority other than the default.
C21_Witness ==
    /\ cmd.name = "done"
    /\ cmd.task_id = 2
    /\ exit_code = 0
    /\ Len(previous) = 2
    /\ previous[2].done
    /\ ~previous[1].done
    /\ previous[1].due_date # JsonNull
    /\ previous[1].priority = "high"
    /\ ~storage_tasks[1].done
    /\ storage_tasks[2].done

\* The inputs the commands are documented to reject, stated on the command
\* line itself: a title of whitespace only, a priority that is none of low,
\* medium, high in any letter case, a due date that is given, not empty and
\* not a date written YYYY-MM-DD, and a task id outside 1..number of tasks.
ValidPriorityText(s) == LowerText(s) \in {"low", "medium", "high"}

MalformedDue(s) == s \in {"12/31/2025", "2025-13-01"}

InvalidInput(line, dicts) ==
    \/ /\ line.name = "add"
       /\ \/ \A i \in 1..Len(line.title) : IsSpace(line.title[i])
          \/ ~ValidPriorityText(line.priority)
          \/ line.due # PyNone /\ MalformedDue(line.due[1])
    \/ /\ line.name = "done"
       /\ (line.task_id < 1 \/ line.task_id > Len(dicts))
    \/ /\ line.name = "list"
       /\ line.priority_filter # PyNone
       /\ line.priority_filter[1] # ""
       /\ ~ValidPriorityText(line.priority_filter[1])

\* C22: a command given invalid input (add with an empty or whitespace-only
\* title, an invalid priority or a malformed due date; done with an id below
\* 1 or above the number of stored tasks; list with an invalid priority)
\* exits with code 2 and the stored task list is what it was before.
C22_RejectedExitsTwoStoreUnchanged ==
    InvalidInput(cmd, previous) =>
        /\ exit_code = EXIT_INVALID_INPUT
        /\ storage_tasks = previous

\* `done 3` rejected on a store of two tasks.
C22_Witness ==
    /\ cmd.name = "done"
    /\ cmd.task_id = 3
    /\ Len(previous) = 2
    /\ exit_code = EXIT_INVALID_INPUT
    /\ storage_tasks = previous

\* t is text without its leading and trailing whitespace: a stretch of text
\* that starts and ends with a character other than whitespace and has only
\* whitespace before and after it.
IsStripped(t, text) ==
    \E i \in 1..Len(text) : \E j \in i..Len(text) :
        /\ t = SubSeq(text, i, j)
        /\ ~IsSpace(text[i])
        /\ ~IsSpace(text[j])
        /\ \A n \in 1..Len(text) : (n < i \/ n > j) => IsSpace(text[n])

\* C23: a successful add leaves the stored list it found, in the same order,
\* followed by exactly one new task whose title is the given title without
\* surrounding whitespace, whose done flag is False and whose priority is the
\* one given (low when none is given); so n successful adds leave their n
\* tasks at the end of the store in the order of the invocations.
C23_AddAppendsOneTask ==
    (cmd.name = "add" /\ exit_code = 0) =>
        /\ Len(storage_tasks) = Len(previous) + 1
        /\ SubSeq(storage_tasks, 1, Len(previous)) = previous
        /\ LET added == storage_tasks[Len(storage_tasks)]
           IN  /\ IsStripped(added.title, cmd.title)
               /\ added.done = FALSE
               /\ added.priority = LowerText(cmd.priority)
               /\ added.priority \in {"low", "medium", "high"}

\* The second of two adds: " a " after "b" with priority high and a due date.
C23_Witness ==
    /\ cmd.name = "add"
    /\ exit_code = 0
    /\ cmd.title = <<" ", "a", " ">>
    /\ Len(previous) = 1
    /\ previous[1].title = <<"b">>
    /\ previous[1].priority = "high"
    /\ Len(storage_tasks) = 2
    /\ storage_tasks[1] = previous[1]
    /\ storage_tasks[2].title = <<"a">>
    /\ storage_tasks[2].priority = "low"

\* C29: every row `list` prints carries in its '#' column the id by which
\* `done` addresses the task shown on that row: the number is a stored
\* position, and the task stored there is the one the row displays.
C29_ShownNumberIsTaskId ==
    (cmd.name = "list" /\ exit_code = 0) =>
        \A i \in 1..Len(shown) :
            /\ shown[i].number <= Len(storage_tasks)
            /\ shown[i] = table(load_tasks(File))[shown[i].number]

(***************************************************************************)
(* Properties of concurrent task commands, checked under SpecConcurrent    *)
(***************************************************************************)
\* The "tasks" array after the command line ran alone on the array dicts.
RanAlone(line, dicts) ==
    LET file == [exists |-> TRUE, tasks |-> dicts]
    IN  IF line.name = "add"
        THEN task_add(file, line.title, line.priority, line.due).file.tasks
        ELSE task_done(file, line.task_id).file.tasks

\* C30: when two commands (add and add, or add and done) run concurrently
\* and both complete, the store holds every earlier task plus both changes:
\* it is what the two commands leave when run one after the other.
C30_BothUpdatesTakeEffect ==
    (\A p \in Procs : proc_pc[p] = "exit0") =>
        \/ storage_tasks = RanAlone(proc_cmd[2], RanAlone(proc_cmd[1], previous))
        \/ storage_tasks = RanAlone(proc_cmd[1], RanAlone(proc_cmd[2], previous))

(***************************************************************************)
(* Hybrid fusion, checked under SpecRetrieval                              *)
(***************************************************************************)
\* The sets of k rows (all rows when there are fewer) a retriever can return
\* for the similarities `scores`: no row left out scores above a row taken.
TopSets(scores, k) ==
    {T \in SUBSET (1..Len(scores)) :
        /\ Cardinality(T) = MinOf(k, Len(scores))
        /\ \A i \in T : \A j \in (1..Len(scores)) \ T : scores[i] >= scores[j]}

\* The sub-score of row i for a signal whose candidates are T: 0 when missing.
SubScoreOf(T, scores, i) == IF i \in T THEN scores[i] ELSE 0

LeastOver(M, T, scores) ==
    CHOOSE v \in {SubScoreOf(T, scores, i) : i \in M} :
        \A i \in M : v <= SubScoreOf(T, scores, i)

GreatestOver(M, T, scores) ==
    CHOOSE v \in {SubScoreOf(T, scores, i) : i \in M} :
        \A i \in M : SubScoreOf(T, scores, i) <= v

\* (v - min) / (max - min + 1e-6) over the merged set M, as numerator and
\* denominator.
NormalizedNum(M, T, scores, i) == SubScoreOf(T, scores, i) - LeastOver(M, T, scores)

NormalizedDen(M, T, scores) ==
    GreatestOver(M, T, scores) - LeastOver(M, T, scores) + Eps

\* normalized_lexical + semantic_weight * normalized_semantic of row i, over
\* the denominator TotalDen.
TotalNum(L, S, i) ==
    LET M == L \cup S
    IN  NormalizedNum(M, L, lex_scores, i) * NormalizedDen(M, S, sem_scores)
             * semantic_weight[2]
        + semantic_weight[1] * NormalizedNum(M, S, sem_scores, i)
             * NormalizedDen(M, L, lex_scores)

TotalDen(L, S) ==
    LET M == L \cup S
    IN  NormalizedDen(M, L, lex_scores) * NormalizedDen(M, S, sem_scores)
            * semantic_weight[2]

\* The list is the top_k of the fusion of the candidate sets L and S.
IsFusionOf(items, L, S, top_k) ==
    LET M == L \cup S
    IN  /\ Len(items) = MinOf(top_k, Cardinality(M))
        /\ \A r \in 1..Len(items) :
              /\ items[r].item_id \in DOMAIN id_to_idx
              /\ id_to_idx[items[r].item_id] \in M
              /\ items[r].score[1] * TotalDen(L, S)
                    = TotalNum(L, S, id_to_idx[items[r].item_id]) * items[r].score[2]
        /\ \A r, q \in 1..Len(items) : r # q => items[r].item_id # items[q].item_id
        /\ \A i \in M : \A r \in 1..Len(items) :
              (\A q \in 1..Len(items) : items[q].item_id # catalog[i].item_id)
                 => TotalNum(L, S, i) <= TotalNum(L, S, id_to_idx[items[r].item_id])

\* C24: what retrieve(text, top_k) returns is the fusion of 2*top_k lexical
\* candidates and, with a semantic retriever, 2*top_k semantic candidates:
\* each merged item_id at most once, a missing sub-score counted as 0, each
\* signal min-max normalized over the merged set, total = normalized lexical
\* + semantic_weight * normalized semantic, and the (at most) top_k items of
\* highest total returned.
C24_RetrieveIsTopKOfFusion ==
    (op = "retrieve" /\ outcome = "none") =>
        \E L \in TopSets(lex_scores, 2 * arg) :
            \E S \in (IF semantic = "None" THEN {{}}
                      ELSE TopSets(sem_scores, 2 * arg)) :
                IsFusionOf(result, L, S, arg)

\* top_k = 1 over three rows: rows 1, 2 are the lexical candidates, rows 2, 3
\* the semantic ones; row 1 has no semantic sub-score, row 3 no lexical one.
C24_Witness ==
    /\ op = "retrieve"
    /\ outcome = "none"
    /\ arg = 1
    /\ semantic = "DualEncoderRetriever"
    /\ semantic_weight = <<1, 2>>
    /\ lex_scores = <<2, 1, 0>>
    /\ sem_scores = <<-2, 1, 2>>
    /\ Len(result) = 1
    /\ result[1].item_id = catalog[1].item_id

(***************************************************************************)
(* The Ranker variant, checked under SpecRanker                            *)
(***************************************************************************)
\* The variant is the one the constructor selected: the fallback exactly
\* when xgboost could not be imported.  A fit of the fallback succeeds or
\* fails by X and y alone; a fit of the XGBRanker variant also by group.
VariantAsConstructed ==
    /\ uses_xgb = has_xgboost
    /\ (op = "fit" /\ ~uses_xgb) =>
            (outcome = "none" <=> arg.y = arg.X.rows)
    /\ (op = "fit" /\ uses_xgb) =>
            (outcome = "none" <=> (arg.y = arg.X.rows /\ Sum(arg.group) = arg.X.rows))

\* C26: the Ranker variant is selected in the constructor, the fallback if
\* and only if xgboost is unavailable, and uses_xgb never changes over any
\* sequence of fit and predict calls; the fallback's fit ignores group and
\* the XGBRanker variant's fit is handed it.
C26_VariantSelectedOnce ==
    []VariantAsConstructed /\ [][uses_xgb' = uses_xgb]_vars

\* A fallback Ranker fitted with a group vector that does not cover the rows,
\* after an earlier fit had returned.
C26_Witness ==
    /\ ~has_xgboost
    /\ ~uses_xgb
    /\ op = "fit"
    /\ outcome = "none"
    /\ Sum(arg.group) # arg.X.rows
    /\ model_features = Len(FEATURE_COLUMNS)
    /\ last_fit_cols = Len(FEATURE_COLUMNS)

(***************************************************************************)
(* Group sizes as segment lengths, checked under SpecMatrices              *)
(***************************************************************************)
\* The row indices of the g-th consecutive segment of the lengths in group.
Segment(group, g) ==
    (Sum(SubSeq(group, 1, g - 1)) + 1)..Sum(SubSeq(group, 1, g))

\* C27: cutting the rows of X into consecutive segments of the returned group
\* sizes gives segments whose rows all have one query_id, also when rows of
\* one query_id are not adjacent in the list given to build_matrices.
C27_GroupsDelimitQueries ==
    op = "build_matrices" =>
        \A g \in 1..Len(result.group) :
            \A i, j \in Segment(result.group, g) :
                result.rows[i].query_id = result.rows[j].query_id

(***************************************************************************)
(* Lexical-only retrieval, checked under SpecRetrieval                     *)
(***************************************************************************)
\* The item_ids of a list of ScoredItem, in order.
ItemIds(items) == [i \in 1..Len(items) |-> items[i].item_id]

\* The step is a retrieve(text, top_k) whose lexical query returned the rows
\* top_indices.
RetrievedWith(top_k, top_indices) ==
    /\ op = "none"
    /\ op' = "retrieve"
    /\ arg' = top_k
    /\ outcome' = Retrieve(top_indices, <<>>, top_k).exc
    /\ result' = Retrieve(top_indices, <<>>, top_k).val

\* C28: with no semantic retriever, retrieve(text, k) returns the item_ids of
\* the first k results of LexicalRetriever.query(text, 2k), in the same
\* order, whatever order the query gave to results of equal score.
C28_LexicalOnlyKeepsQueryOrder ==
    [][(semantic = "None" /\ op' = "retrieve") =>
          \A top_indices \in TopIndices(lex_scores, 2 * arg') :
              RetrievedWith(arg', top_indices) =>
                  /\ outcome' = "none"
                  /\ ItemIds(result')
                        = SubSeq(ItemIds(LexicalQuery(top_indices)), 1,
                                 MinOf(arg', Len(top_indices)))]_vars

\* A lexical-only retrieve of two items of equal score, returned with the
\* later catalog row first, above a third row that scores lower.
C28_Witness ==
    /\ op = "retrieve"
    /\ outcome = "none"
    /\ semantic = "None"
    /\ arg = 2
    /\ lex_scores = <<1, 1, 0>>
    /\ Len(result) = 2
    /\ result[1].item_id = catalog[2].item_id
    /\ result[2].item_id = catalog[1].item_id

(***************************************************************************)
(* Read-only components, checked under SpecServe                           *)
(***************************************************************************)
\* C25: no call of query, retrieve, pair_scores (and the score_pair calls it
\* makes), UserProfiles.score, IntentClassifier.predict, build_feature_rows,
\* build_matrices or evaluate_predictions, in any sequence, changes the
\* catalog, the TF-IDF index, the stored embeddings, the id-to-index maps or
\* the user profiles, nor the classifier.
C25_CallsLeaveComponentsUnchanged ==
    [][/\ catalog' = catalog
       /\ lex_scores' = lex_scores
       /\ semantic' = semantic
       /\ sem_scores' = sem_scores
       /\ id_to_idx' = id_to_idx
       /\ labeled_pairs' = labeled_pairs
       /\ profiles' = profiles
       /\ intentVars' = intentVars]_vars

\* evaluate_predictions has returned, which follows build_feature_rows over
\* rows of both users and build_matrices, on profiles that know u1 only.
C25_Witness ==
    /\ op = "evaluate_predictions"
    /\ outcome = "none"
    /\ Len(arg[1]) = 2
    /\ arg[1][1].user_id = "u1"
    /\ arg[1][2].user_id = "u2"
    /\ DOMAIN profiles = {"u1"}
    /\ Len(catalog) = MaxCatalog

====
